---- MODULE Spec2Model ----
(***************************************************************************)
(* Crystal Nugs Voice AI: the relay session of one call.                   *)
(*                                                                         *)
(* Two families of the server are modelled over one set of variables:      *)
(*   Spec        the single-shot servers (local intents, then one HTTPS    *)
(*               chat completion): src/server.js:75-142 ("basic") and      *)
(*               src/unnamed/part_003:327-486 ("full": product lookup,     *)
(*               live transfer, brand voice);                              *)
(*   SpecStream  the streaming text bridge to the realtime model socket:   *)
(*               src/unnamed/part_002:84-189.                              *)
(* A text is a sequence of atoms (words, links, addresses); the wire       *)
(* message of the relay is [type, token, last].                            *)
(***************************************************************************)
EXTENDS Integers, Sequences, FiniteSets

VARIABLES
    variant,            \* which single-shot server runs: "basic" | "full"
    OPENAI_API_KEY,     \* TRUE iff process.env.OPENAI_API_KEY is set
    JANE_LOOKUPS_ENABLED,
    twilioCreds,        \* TRUE iff TWILIO_ACCOUNT_SID and TWILIO_AUTH_TOKEN are set
    twilioWS,           \* readyState of the caller-facing socket
    currentCallSid,     \* part_003:330
    prompts,            \* one record per prompt event received: the handler's frame
    twilioOut,          \* messages sent on the caller socket, in order
    outFor,             \* outFor[i]: the prompt (streaming: the response) twilioOut[i] was sent for
    openaiCalls,        \* prompts for which a chat completion request was issued
    transferLog,        \* calls of transferLiveCall: [callSid, prompt, sentBefore]
    janeCalls,          \* prompts for which janeMenuSearch was called
    connPc,             \* streaming: position of the connection handler
    openaiWS,           \* streaming: readyState of the model socket
    openaiOut,          \* streaming: messages sent on the model socket, in order
    openaiIn,           \* streaming: the last event received from the model socket
    upstream,           \* streaming: progress of the model service
    unhandled,          \* TRUE once an exception or rejection escaped a handler
    OUTPUT_JSON,        \* ZIP server: CN_OUTPUT_FORMAT is "json"
    ZIP_TABLE,          \* ZIP servers: the global table, a set of rows with unique zips
    load,               \* ZIP servers: the table load in progress and the last one's result
    seen,               \* ZIP servers: what the last lookup read
    fn,                 \* a pure function under test: its input and its results
    schemaCursor,       \* adaptive server: index of the outbound shape in use
    logged,             \* type of the last event a log-only branch wrote to the console
    commitTimer,        \* audio bridge: the commit timer of the session and the runtime's timers
    sessions            \* several calls at once: the state of each connection

vars == <<variant, OPENAI_API_KEY, JANE_LOOKUPS_ENABLED, twilioCreds, twilioWS,
          currentCallSid, prompts, twilioOut, outFor, openaiCalls, transferLog,
          janeCalls, connPc, openaiWS, openaiOut, openaiIn, upstream,
          unhandled, OUTPUT_JSON, ZIP_TABLE, load, seen, fn, schemaCursor,
                   logged, commitTimer, sessions>>

chatVars == <<variant, OPENAI_API_KEY, JANE_LOOKUPS_ENABLED, twilioCreds,
              currentCallSid, openaiCalls, transferLog, janeCalls>>

streamVars == <<connPc, openaiWS, openaiOut, openaiIn, upstream>>

zipVars == <<OUTPUT_JSON, ZIP_TABLE, load, seen>>

\* what the relay servers without a ZIP table never touch
auxVars == <<unhandled, OUTPUT_JSON, ZIP_TABLE, load, seen, fn, schemaCursor,
                   logged, commitTimer, sessions>>

(***************************************************************************)
(* Bounds of the model.                                                    *)
(***************************************************************************)
MaxPrompts == 2

NULL == "null"      \* null / undefined, where a string is expected
NoText == <<>>      \* null or "": a falsy text
NoRec == [zip |-> NULL]

(***************************************************************************)
(* Business facts and canned sentences, as atom sequences.                 *)
(***************************************************************************)
HOURS == <<"hours-9-to-9">>
LAST_CALL == <<"last-call-8:15">>
ADDRESS == <<"2300 J Street">>
ID_RULES == <<"photo ID 21+">>
MED_PTS == <<"medical 18+">>
DELIVERY == <<"we deliver to Midtown">>
DELIV_MIN == <<"minimums from $40">>
DELIV_FEE == <<"delivery $1.99">>
PARKING == <<"street parking">>
PAYMENT == <<"cash and JanePay">>
SPECIALS == <<"for deals visit", "crystalnugs.com", "deals change daily">>
RETURNS == <<"exchange within 24 hours">>
VENDOR_INFO == <<"vendors email", "chris at crystal nugs dot com">>
VENDOR_INFO_BASIC == <<"vendors email", "chris", "@", "crystalnugs.com">>
VENDOR_DEMO == <<"demos email", "caprice at crystal nugs dot com">>
VENDOR_DEMO_BASIC == <<"demos email", "gummiegrannie72@gmail.com">>
MAP_URL == <<"neon green building on J and 23rd">>
MAP_URL_BASIC == <<"https://", "maps.google.com/?q=2300+J+Street">>
DELIVERY_PLACES == <<"yes we deliver to hotels and venues">>
TRANSFER_NUMBER == <<"9-1-6,", "7-0-1,", "9-7-7-7">>

TRANSFER_NOW == <<"__TRANSFER_NOW__">>

(***************************************************************************)
(* Delivery table (part_003:146-235): amounts in cents.                    *)
(***************************************************************************)
DELIVERY_TABLE ==
    << [zip |-> "95816", minimum |-> 4000, fee |-> 199, window |-> "30-60 minutes"],
       [zip |-> "95829", minimum |-> 5000, fee |-> 199, window |-> "60-120 minutes"],
       [zip |-> "95632", minimum |-> 8000, fee |-> 349, window |-> "90-180 minutes"] >>

deliveryByZip(zip) ==
    LET hits == {i \in 1..Len(DELIVERY_TABLE) : DELIVERY_TABLE[i].zip = zip}
    IN  IF hits = {} THEN NoRec
        ELSE DELIVERY_TABLE[CHOOSE i \in hits : \A j \in hits : i <= j]

Digit == <<"0", "1", "2", "3", "4", "5", "6", "7", "8", "9">>

RECURSIVE NatStr(_)
NatStr(n) == IF n < 10 THEN <<Digit[n + 1]>>
             ELSE NatStr(n \div 10) \o <<Digit[(n % 10) + 1]>>

\* variant of formatMoney that keeps whole dollars only
formatMoney_Dollars(cents) == <<"$">> \o NatStr(cents \div 100)

\* num.toFixed(2), with a trailing ".00" dropped
formatMoney(cents) ==
    IF cents % 100 = 0
    THEN <<"$">> \o NatStr(cents \div 100)
    ELSE <<"$">> \o NatStr(cents \div 100) \o
         <<".", Digit[((cents % 100) \div 10) + 1], Digit[(cents % 10) + 1]>>

speakZip(zip) ==
    CASE zip = "95816" -> "9-5-8-1-6"
      [] zip = "95829" -> "9-5-8-2-9"
      [] zip = "95632" -> "9-5-6-3-2"
      [] zip = "99999" -> "9-9-9-9-9"
      [] OTHER -> zip

extractZip(q) == IF Len(q.zips) > 0 THEN q.zips[1] ELSE NULL

(***************************************************************************)
(* Utterances: the words of the caller's turn that the server's regular    *)
(* expressions look for, and the 5-digit codes in it, in order.            *)
(***************************************************************************)
Says(q, ws) == q.words \cap ws # {}

Utt(ws, zs) == [words |-> ws, zips |-> zs]

Utterances ==
    { Utt({"color"}, <<>>),
      Utt({"hours"}, <<>>),
      Utt({"deals"}, <<>>),
      Utt({"person"}, <<>>),
      Utt({"minimum"}, <<"95816">>),
      Utt({"fee"}, <<"99999">>),
      Utt({"carry", "maven"}, <<>>),
      Utt({"carry", "maven", "person"}, <<>>) }

\* part_003:745-770
detectProductQuery(t) ==
    LET askedCarry == Says(t, {"carry", "have", "stock", "sell"})
        wantsPreroll == Says(t, {"pre-roll", "joint"})
        brands == (IF Says(t, {"maven"}) THEN <<"Maven">> ELSE <<>>) \o
                  (IF Says(t, {"stiiizy", "steezy", "stizzy"}) THEN <<"STIIIZY">> ELSE <<>>) \o
                  (IF Says(t, {"raw garden"}) THEN <<"Raw Garden">> ELSE <<>>)
    IN  IF Len(brands) > 0 /\ (askedCarry \/ wantsPreroll)
        THEN IF Says(t, {"flower", "eighth"}) THEN <<brands[1], "flower">>
             ELSE IF Says(t, {"vape", "pod", "cart"}) THEN <<brands[1], "vape">>
             ELSE <<brands[1], "pre-rolls">>
        ELSE IF (askedCarry \/ wantsPreroll) /\ Says(t, {"gelato", "infused"})
        THEN <<IF Says(t, {"gelato"}) THEN "gelato" ELSE "infused", "pre-rolls">>
        ELSE NoText

venueLabel(mentionsHotel, mentionsVenue) ==
    IF mentionsHotel /\ mentionsVenue THEN "hotels, motels, restaurants, bars, and truck stops"
    ELSE IF mentionsHotel THEN "hotels and motels"
    ELSE "restaurants, bars, and truck stops"

\* part_003:493
HumanWords == {"representative", "agent", "human", "person", "operator", "manager",
               "associate", "someone", "live agent"}

\* part_003:489-571
handleLocalIntent(q) ==
    LET maybeZip == extractZip(q)
        wantsHuman == Says(q, HumanWords)
        asksMin == Says(q, {"minimum", "min"})
        asksFee == Says(q, {"fee", "charge", "cost"})
        asksDelivery == Says(q, {"delivery", "do you deliver", "zone", "area", "order", "eta"})
        asksDeliverTo == Says(q, {"do you deliver", "deliver to"})
        mentionsHotel == Says(q, {"hotel", "motel"})
        mentionsVenue == Says(q, {"bar", "restaurant", "truck stop"})
        rec == deliveryByZip(maybeZip)
    IN  IF wantsHuman THEN TRANSFER_NOW
        ELSE IF asksDeliverTo /\ (mentionsHotel \/ mentionsVenue) THEN
            IF maybeZip # NULL THEN
                IF rec # NoRec
                THEN <<"Yes we deliver to", venueLabel(mentionsHotel, mentionsVenue),
                       "in ZIP", speakZip(maybeZip), "ETA", rec.window, "Minimum">>
                     \o formatMoney(rec.minimum) \o <<"Fee">> \o formatMoney(rec.fee)
                     \o LAST_CALL
                ELSE <<"Yes we deliver to", venueLabel(mentionsHotel, mentionsVenue),
                       "For ZIP", speakZip(maybeZip), "no record, share a nearby ZIP">>
            ELSE DELIVERY_PLACES \o <<"what is your 5-digit ZIP">>
        ELSE IF (asksMin \/ asksFee \/ asksDelivery) /\ maybeZip # NULL THEN
            IF rec # NoRec
            THEN <<"For ZIP", speakZip(maybeZip), "estimated delivery", rec.window,
                   "Delivery minimum">> \o formatMoney(rec.minimum)
                 \o <<"Delivery fee">> \o formatMoney(rec.fee) \o LAST_CALL
            ELSE <<"For ZIP", speakZip(maybeZip), "no set policy, share a nearby ZIP">>
        ELSE IF asksMin \/ asksFee \/ asksDelivery THEN <<"what is your 5-digit ZIP">>
        ELSE IF Says(q, {"hours", "open", "close", "when"}) THEN HOURS \o LAST_CALL
        ELSE IF Says(q, {"address", "location", "where", "directions"}) THEN MAP_URL
        ELSE IF Says(q, {"website", "site", "url", "online", "menu"})
             THEN <<"visit us online at Crystal Nugs dot com">>
        ELSE IF Says(q, {"id", "identification", "age"}) THEN ID_RULES \o MED_PTS
        ELSE IF Says(q, {"deliveries", "delivery", "do you deliver", "deliver to", "zone",
                         "area", "minimum", "fee", "charge"})
             THEN DELIVERY \o DELIV_MIN \o DELIV_FEE
        ELSE IF Says(q, {"parking", "park"}) THEN PARKING
        ELSE IF Says(q, {"pay", "payment", "cash", "card", "atm"}) THEN PAYMENT
        ELSE IF Says(q, {"deals", "special", "discount", "promo"}) THEN SPECIALS
        ELSE IF Says(q, {"return", "exchange", "refund", "defective"}) THEN RETURNS
        ELSE IF Says(q, {"vendor", "brand", "wholesale", "buyer"}) THEN VENDOR_INFO
        ELSE IF Says(q, {"demo", "activation", "pop-up", "event"}) THEN VENDOR_DEMO
        ELSE NoText

\* server.js:146-224
handleLocalIntentBasic(q) ==
    IF Says(q, {"hours", "open", "close", "when"})
         THEN HOURS \o LAST_CALL \o <<"Anything else I can help with?">>
    ELSE IF Says(q, {"address", "location", "where", "directions"})
         THEN <<"We are located at">> \o ADDRESS \o <<"For directions use this link:">>
              \o MAP_URL_BASIC
    ELSE IF Says(q, {"id", "identification", "age"}) THEN ID_RULES \o MED_PTS
    ELSE IF Says(q, {"deliveries", "delivery", "do you deliver", "deliver to", "zone",
                     "area", "radius", "minimum", "fee", "charge"})
         THEN DELIVERY \o DELIV_MIN \o DELIV_FEE \o LAST_CALL
              \o <<"Share your address to confirm coverage.">>
    ELSE IF Says(q, {"parking", "park"}) THEN PARKING
    ELSE IF Says(q, {"pay", "payment", "cash", "card", "atm"})
         THEN PAYMENT \o <<"Anything else I can help with?">>
    ELSE IF Says(q, {"deals", "special", "discount", "promo"})
         THEN SPECIALS \o <<"Would you like any help finding something specific?">>
    ELSE IF Says(q, {"return", "exchange", "refund", "defective"}) THEN RETURNS
    ELSE IF Says(q, {"vendor", "brand", "wholesale", "buyer"}) THEN VENDOR_INFO_BASIC
    ELSE IF Says(q, {"demo", "activation", "pop-up", "event"}) THEN VENDOR_DEMO_BASIC
    ELSE NoText

(***************************************************************************)
(* Output sanitization (part_003:821-854).                                 *)
(***************************************************************************)
Schemes == {"http://", "https://"}

DOMAIN_NAME == "crystalnugs.com"

SPOKEN_DOMAIN == "Crystal Nugs dot com"

\* a text is the concatenation of its parts; these are the parts that begin
\* (end) with a word character, every other part being a phrase set off by
\* blanks or punctuation
StartsWord(part) == part \in {"http://", "https://", "ht", "tp://", "www.", DOMAIN_NAME, "chris"}

EndsWord(part) == part \in {"ht", DOMAIN_NAME, "chris"}

\* \b after the domain name: the text ends or goes on with a non-word character
EndsAt(rest) == rest = <<>> \/ ~StartsWord(Head(rest))

\* /https?:\/\/(www\.)?crystalnugs\.com\/?/gi
RECURSIVE ReplaceLinks(_)
ReplaceLinks(t) ==
    IF t = <<>> THEN <<>>
    ELSE LET r1 == Tail(t)
             r2 == IF r1 # <<>> /\ Head(r1) = "www." THEN Tail(r1) ELSE r1
             r3 == IF r2 = <<>> THEN <<>> ELSE Tail(r2)
         IN  IF Head(t) \in Schemes /\ r2 # <<>> /\ Head(r2) = DOMAIN_NAME
             THEN <<SPOKEN_DOMAIN>>
                  \o ReplaceLinks(IF r3 # <<>> /\ Head(r3) = "/" THEN Tail(r3) ELSE r3)
             ELSE <<Head(t)>> \o ReplaceLinks(r1)

\* /\bwww\.crystalnugs\.com\b/gi; wordBefore: the text so far ends with a word character
RECURSIVE ReplaceWww(_, _)
ReplaceWww(t, wordBefore) ==
    IF t = <<>> THEN <<>>
    ELSE IF /\ Head(t) = "www."
            /\ ~wordBefore
            /\ Len(t) >= 2
            /\ t[2] = DOMAIN_NAME
            /\ EndsAt(Tail(Tail(t)))
         THEN <<SPOKEN_DOMAIN>> \o ReplaceWww(Tail(Tail(t)), TRUE)
         ELSE <<Head(t)>> \o ReplaceWww(Tail(t), EndsWord(Head(t)))

\* /\bcrystalnugs\.com\b/gi
RECURSIVE ReplaceDomain(_, _)
ReplaceDomain(t, wordBefore) ==
    IF t = <<>> THEN <<>>
    ELSE IF Head(t) = DOMAIN_NAME /\ ~wordBefore /\ EndsAt(Tail(t))
         THEN <<SPOKEN_DOMAIN>> \o ReplaceDomain(Tail(t), TRUE)
         ELSE <<Head(t)>> \o ReplaceDomain(Tail(t), EndsWord(Head(t)))

\* /\b([a-z0-9._%+-]+)@crystalnugs\.com\b/gi
RECURSIVE ReplaceEmail(_)
ReplaceEmail(t) ==
    IF t = <<>> THEN <<>>
    ELSE IF /\ Len(t) >= 3
            /\ EndsWord(t[1])
            /\ t[2] = "@"
            /\ t[3] = DOMAIN_NAME
            /\ EndsAt(Tail(Tail(Tail(t))))
         THEN <<t[1], "at crystal nugs dot com">> \o ReplaceEmail(Tail(Tail(Tail(t))))
         ELSE <<Head(t)>> \o ReplaceEmail(Tail(t))

\* /https?:\/\//gi
StripSchemes(t) == SelectSeq(t, LAMBDA part : part \notin Schemes)

\* part_003:821-833: the five replacements, in the order of the code
toSpokenText(text) ==
    StripSchemes(ReplaceEmail(ReplaceDomain(ReplaceWww(ReplaceLinks(text), FALSE), FALSE)))

\* plain (non-SSML) voice: the cleaned text with blank runs collapsed
brandVoice(raw) == SelectSeq(toSpokenText(raw), LAMBDA a : a # "")


(***************************************************************************)
(* The relay's wire messages and the guarded send (server.js:267-272,      *)
(* part_003:773-780).                                                      *)
(***************************************************************************)
TextMsg(token, last) == [type |-> "text", token |-> token, last |-> last]

\* variant of safeSend without the readyState test
safeSend_Always(ws, sent, obj) == Append(sent, obj)

\* no-op unless the socket is OPEN
safeSend(ws, sent, obj) == IF ws # "OPEN" THEN sent ELSE Append(sent, obj)

(***************************************************************************)
(* Inbound events of the relay socket.                                     *)
(***************************************************************************)
NoVoice == [falsy |-> TRUE]     \* voicePrompt missing or ""
NotAString == [truthy |-> TRUE] \* voicePrompt a number, true, an array or an object

VoicePrompts == Utterances \cup {NoVoice, NotAString}

CallSids == {"CA1", NULL}

(***************************************************************************)
(* Canned replies of the handlers.                                         *)
(***************************************************************************)
SORRY_NO_KEY_BASIC == <<"Sorry, trouble reaching our assistant. Ask about hours, address, ID, delivery.">>
SORRY_NO_KEY == <<"Sorry, I am having trouble connecting right now.">>
FALLBACK_FACTS == HOURS \o <<"Our address is">> \o ADDRESS \o ID_RULES \o DELIVERY
SORRY_BUSY == <<"Sorry, our assistant is currently busy. Please call back shortly.">>
DIDNT_CATCH == <<"Sorry, I did not catch that.">>
TRANSFER_ACK == <<"No problem. Transferring you now.">>
TRANSFER_FALLBACK == <<"I could not transfer the call just now. Here is our direct line:">>
                     \o TRANSFER_NUMBER
MODEL_ANSWER == <<"the model's answer", "https://", "www.", "crystalnugs.com">>
ERROR_TEXT == <<"OpenAI HTTP 500:", "upstream error body">>

(***************************************************************************)
(* askOpenAI (server.js:236-264, part_003:574-615): what the awaited call  *)
(* gives for each way the HTTPS exchange can end.                          *)
(***************************************************************************)
FetchOutcomes == {"rejected", "non2xx", "malformed", "nocontent", "ok"}

askOpenAI(outcome) ==
    CASE outcome = "rejected" -> [threw |-> TRUE, value |-> <<"fetch failed">>]
      [] outcome = "non2xx" -> [threw |-> TRUE, value |-> ERROR_TEXT]
      [] outcome = "malformed" ->
            IF variant = "basic"
            THEN [threw |-> TRUE, value |-> <<"Unexpected token in JSON">>]
            ELSE [threw |-> FALSE, value |-> DIDNT_CATCH]
      [] outcome = "nocontent" -> [threw |-> FALSE, value |-> DIDNT_CATCH]
      [] OTHER -> [threw |-> FALSE, value |-> MODEL_ANSWER]

\* variant of OpenAIReply that speaks whatever the call gave, its error included
OpenAIReply_Leak(r) == TextMsg(IF variant = "basic" THEN r.value ELSE brandVoice(r.value), TRUE)

\* the try/catch around the call (server.js:107-117, part_003:460-476)
OpenAIReply(r) ==
    IF r.threw
    THEN TextMsg(IF variant = "basic" THEN FALLBACK_FACTS ELSE brandVoice(SORRY_BUSY), TRUE)
    ELSE TextMsg(IF variant = "basic" THEN r.value ELSE brandVoice(r.value), TRUE)

(***************************************************************************)
(* The prompt handler up to its first await.                               *)
(***************************************************************************)
\* variant of LocalOf with a matcher that remembers it has run: only the first call answers
LocalOf_Once(u) ==
    IF fn.name = "handleLocalIntent" /\ Len(fn.out) > 0 THEN NoText
    ELSE IF variant = "basic" THEN handleLocalIntentBasic(u) ELSE handleLocalIntent(u)

LocalOf(u) == IF variant = "basic" THEN handleLocalIntentBasic(u) ELSE handleLocalIntent(u)

\* variant of Branch without the test of the API key
Branch_NoKeyCheck(u) ==
    IF u = NoVoice THEN "ignored"
    ELSE IF u = NotAString THEN "typeerror"
    ELSE IF variant = "full" /\ detectProductQuery(u) # NoText
         THEN IF JANE_LOOKUPS_ENABLED THEN "product" ELSE "product_off"
    ELSE IF variant = "full" /\ LocalOf(u) = TRANSFER_NOW THEN "transfer"
    ELSE IF LocalOf(u) # NoText THEN "local"
    ELSE "openai"

Branch(u) ==
    IF u = NoVoice THEN "ignored"
    ELSE IF u = NotAString THEN "typeerror"
    ELSE IF variant = "full" /\ detectProductQuery(u) # NoText
         THEN IF JANE_LOOKUPS_ENABLED THEN "product" ELSE "product_off"
    ELSE IF variant = "full" /\ LocalOf(u) = TRANSFER_NOW THEN "transfer"
    ELSE IF LocalOf(u) # NoText THEN "local"
    ELSE IF ~OPENAI_API_KEY THEN "nokey"
    ELSE "openai"

\* to: the abort timer of the product lookup (part_003:356): "none" | "armed" | "cleared"
Frame(u, b, pc) == [voicePrompt |-> u, branch |-> b, pc |-> pc, outcome |-> "none", to |-> "none"]

\* variant of LocalReply that leaves the turn open
LocalReply_NotLast(u) == TextMsg(IF variant = "basic" THEN LocalOf(u) ELSE brandVoice(LocalOf(u)), FALSE)

LocalReply(u) == TextMsg(IF variant = "basic" THEN LocalOf(u) ELSE brandVoice(LocalOf(u)), TRUE)

NoKeyReply == TextMsg(IF variant = "basic" THEN SORRY_NO_KEY_BASIC ELSE brandVoice(SORRY_NO_KEY), TRUE)

ProductOffReply(u) ==
    TextMsg(brandVoice(IF Says(u, {"maven"})
                       THEN <<"Yes, we carry Maven. Check", "Crystal Nugs dot com">>
                       ELSE <<"We carry that brand. Check", "Crystal Nugs dot com">>), TRUE)

\* transferLiveCall throws before any request when the CallSid or the credentials are missing
TransferThrowsAtOnce == currentCallSid = NULL \/ ~twilioCreds

Sent1(p, m) ==
    /\ twilioOut' = safeSend(twilioWS, twilioOut, m)
    /\ outFor' = safeSend(twilioWS, outFor, p)

SentNone == UNCHANGED <<twilioOut, outFor>>

\* variant of TransferStart that calls transferLiveCall before acknowledging
TransferStart_CallFirst(ws, sent, sid, p) ==
    LET acked == safeSend(ws, sent, TextMsg(brandVoice(TRANSFER_ACK), TRUE))
    IN  [sent |-> acked,
         call |-> [callSid |-> sid, prompt |-> p, sentBefore |-> Len(sent)]]

\* part_003:416-423: the acknowledgement is sent, then transferLiveCall is
\* called with the stored CallSid; sentBefore is what had been written to the
\* caller socket when the call was made
TransferStart(ws, sent, sid, p) ==
    LET acked == safeSend(ws, sent, TextMsg(brandVoice(TRANSFER_ACK), TRUE))
    IN  [sent |-> acked,
         call |-> [callSid |-> sid, prompt |-> p, sentBefore |-> Len(acked)]]

\* variant of OnSetup that answers the handshake with a spoken greeting
OnSetup_Greets(sid) ==
    /\ twilioWS = "OPEN"
    /\ connPc = "none"
    /\ currentCallSid' = IF variant = "full" THEN sid ELSE currentCallSid
    /\ twilioOut' = Append(twilioOut, TextMsg(<<"Welcome to Crystal Nugs.">>, TRUE))
    /\ outFor' = Append(outFor, 0)
    /\ UNCHANGED <<variant, OPENAI_API_KEY, JANE_LOOKUPS_ENABLED, twilioCreds, twilioWS,
                   prompts, openaiCalls, transferLog, janeCalls>>
    /\ UNCHANGED streamVars
    /\ UNCHANGED auxVars

\* server.js:82-85, part_003:340-345
OnSetup(sid) ==
    /\ twilioWS = "OPEN"
    /\ connPc = "none"
    /\ currentCallSid' = IF variant = "full" THEN sid ELSE currentCallSid
    /\ UNCHANGED <<variant, OPENAI_API_KEY, JANE_LOOKUPS_ENABLED, twilioCreds, twilioWS,
                   prompts, twilioOut, outFor, openaiCalls, transferLog, janeCalls>>
    /\ UNCHANGED streamVars
    /\ UNCHANGED auxVars

OnPrompt(u) ==
    LET p == Len(prompts) + 1
        b == Branch(u)
    IN  /\ twilioWS = "OPEN"
        /\ connPc = "none"
        /\ p <= MaxPrompts
        /\ CASE b = "ignored" ->
                  /\ prompts' = Append(prompts, Frame(u, b, "done"))
                  /\ SentNone
                  /\ UNCHANGED <<openaiCalls, transferLog, janeCalls>>
             [] b = "typeerror" ->
                  \* voicePrompt.trim is not a function: the async handler rejects
                  /\ prompts' = Append(prompts, Frame(u, b, "done"))
                  /\ SentNone
                  /\ UNCHANGED <<openaiCalls, transferLog, janeCalls>>
             [] b = "product" ->
                  /\ prompts' = Append(prompts, [Frame(u, b, "await_jane") EXCEPT !.to = "armed"])
                  /\ janeCalls' = Append(janeCalls, p)
                  /\ SentNone
                  /\ UNCHANGED <<openaiCalls, transferLog>>
             [] b = "product_off" ->
                  /\ prompts' = Append(prompts, Frame(u, b, "done"))
                  /\ Sent1(p, ProductOffReply(u))
                  /\ UNCHANGED <<openaiCalls, transferLog, janeCalls>>
             [] b = "transfer" ->
                  LET t == TransferStart(twilioWS, twilioOut, currentCallSid, p)
                      fallback == TextMsg(brandVoice(TRANSFER_FALLBACK), TRUE)
                  IN  /\ transferLog' = Append(transferLog, t.call)
                      /\ IF TransferThrowsAtOnce
                         THEN /\ prompts' = Append(prompts, [Frame(u, b, "done") EXCEPT !.outcome = "threw"])
                              /\ twilioOut' = safeSend(twilioWS, t.sent, fallback)
                              /\ outFor' = safeSend(twilioWS, safeSend(twilioWS, outFor, p), p)
                         ELSE /\ prompts' = Append(prompts, Frame(u, b, "await_transfer"))
                              /\ twilioOut' = t.sent
                              /\ outFor' = safeSend(twilioWS, outFor, p)
                      /\ UNCHANGED <<openaiCalls, janeCalls>>
             [] b = "local" ->
                  /\ prompts' = Append(prompts, Frame(u, b, "done"))
                  /\ Sent1(p, LocalReply(u))
                  /\ UNCHANGED <<openaiCalls, transferLog, janeCalls>>
             [] b = "nokey" ->
                  /\ prompts' = Append(prompts, Frame(u, b, "done"))
                  /\ Sent1(p, NoKeyReply)
                  /\ UNCHANGED <<openaiCalls, transferLog, janeCalls>>
             [] OTHER ->
                  /\ prompts' = Append(prompts, Frame(u, b, "await_openai"))
                  /\ openaiCalls' = Append(openaiCalls, p)
                  /\ SentNone
                  /\ UNCHANGED <<transferLog, janeCalls>>
        /\ UNCHANGED <<variant, OPENAI_API_KEY, JANE_LOOKUPS_ENABLED, twilioCreds, twilioWS,
                       currentCallSid>>
        /\ unhandled' = (unhandled \/ b = "typeerror")
        /\ UNCHANGED streamVars
        /\ UNCHANGED zipVars
        /\ UNCHANGED <<fn, schemaCursor,
                   logged, commitTimer, sessions>>

(***************************************************************************)
(* Continuations of the prompt handler after its await.                    *)
(***************************************************************************)
Settle(p, outcome) == [prompts EXCEPT ![p].pc = "done", ![p].outcome = outcome]

JaneOutcomes == {"items", "empty", "error", "abort"}

\* part_003:357-403
JaneReply(u, outcome) ==
    LET productIntent == detectProductQuery(u)
    IN  CASE outcome = "items" ->
                TextMsg(brandVoice(<<"Yes, we carry">> \o productIntent
                                   \o <<"Top picks. You can order at", "Crystal Nugs dot com">>), TRUE)
          [] outcome = "empty" ->
                TextMsg(brandVoice(<<"I did not see">> \o productIntent
                                   \o <<"available right now. Please check", "Crystal Nugs dot com">>), TRUE)
          [] OTHER ->
                TextMsg(brandVoice(IF Says(u, {"maven"})
                                   THEN <<"Yes, we carry Maven. Check", "Crystal Nugs dot com">>
                                   ELSE <<"I could not reach our live menu. Check", "Crystal Nugs dot com">>), TRUE)

\* variant of JaneDone whose catch block forgets clearTimeout
JaneDone_KeepsTimer(p, outcome) ==
    [prompts EXCEPT ![p].pc = "done", ![p].outcome = outcome,
                    ![p].to = IF outcome \in {"items", "empty"} THEN "cleared" ELSE @]

\* part_003:359 and 393: clearTimeout(to) after the await and in the catch
\* block; on "abort" the timer has fired and called ac.abort()
JaneDone(p, outcome) ==
    [prompts EXCEPT ![p].pc = "done", ![p].outcome = outcome, ![p].to = "cleared"]

JaneSettle(p, outcome) ==
    /\ p \in 1..Len(prompts)
    /\ prompts[p].pc = "await_jane"
    /\ prompts' = JaneDone(p, outcome)
    /\ Sent1(p, JaneReply(prompts[p].voicePrompt, outcome))
    /\ UNCHANGED <<twilioWS>>
    /\ UNCHANGED chatVars
    /\ UNCHANGED streamVars
    /\ UNCHANGED auxVars

\* part_003:423-437
TransferSettle(p, ok) ==
    /\ p \in 1..Len(prompts)
    /\ prompts[p].pc = "await_transfer"
    /\ prompts' = Settle(p, IF ok THEN "ok" ELSE "threw")
    /\ IF ok THEN SentNone
       ELSE Sent1(p, TextMsg(brandVoice(TRANSFER_FALLBACK), TRUE))
    /\ UNCHANGED <<twilioWS>>
    /\ UNCHANGED chatVars
    /\ UNCHANGED streamVars
    /\ UNCHANGED auxVars

\* server.js:107-118, part_003:460-476
OpenAISettle(p, outcome) ==
    /\ p \in 1..Len(prompts)
    /\ prompts[p].pc = "await_openai"
    /\ prompts' = Settle(p, outcome)
    /\ Sent1(p, OpenAIReply(askOpenAI(outcome)))
    /\ UNCHANGED <<twilioWS>>
    /\ UNCHANGED chatVars
    /\ UNCHANGED streamVars
    /\ UNCHANGED auxVars

\* the caller hangs up; the single-shot servers only log it (server.js:139-141)
TwilioClose ==
    /\ connPc = "none"
    /\ twilioWS = "OPEN"
    /\ twilioWS' = "CLOSED"
    /\ UNCHANGED <<prompts, twilioOut, outFor>>
    /\ UNCHANGED chatVars
    /\ UNCHANGED streamVars
    /\ UNCHANGED auxVars

NoEvent == [type |-> "none", delta |-> NoText, rid |-> 0]

EmptyTable == {}

NoLoad == [pc |-> "idle", src |-> [kind |-> "none"], map |-> EmptyTable, rest |-> <<>>,
           n |-> 0, last |-> "none", report |-> "none"]

NoSeen == [zip |-> NULL, table |-> EmptyTable, loading |-> FALSE]

NoFn == [name |-> "none"]

\* handle: the session's commitTimer (0: null); pending: the timers the
\* runtime holds armed; media: media events handled; fired: the last timer
\* that ran
NoTimer == [handle |-> 0, pending |-> {}, media |-> 0, fired |-> 0]

NoSessions == <<>>

\* what only the event, audio and multi-call models use
ExtraIdle ==
    /\ logged = "none"
    /\ commitTimer = NoTimer
    /\ sessions = NoSessions

AuxIdle ==
    /\ unhandled = FALSE
    /\ OUTPUT_JSON = FALSE
    /\ ZIP_TABLE = EmptyTable
    /\ load = NoLoad
    /\ seen = NoSeen
    /\ schemaCursor = 0
    /\ ExtraIdle
    /\ fn = NoFn

StreamIdle ==
    /\ connPc = "none"
    /\ openaiWS = "NONE"
    /\ openaiOut = <<>>
    /\ openaiIn = [seq |-> 0, ev |-> NoEvent, callerOpen |-> TRUE]
    /\ upstream = [asked |-> 0, done |-> 0, k |-> 0]

Init ==
    /\ variant \in {"basic", "full"}
    /\ OPENAI_API_KEY \in BOOLEAN
    /\ JANE_LOOKUPS_ENABLED \in BOOLEAN
    /\ twilioCreds \in BOOLEAN
    /\ variant = "basic" => (JANE_LOOKUPS_ENABLED /\ ~twilioCreds)
    /\ twilioWS = "OPEN"
    /\ currentCallSid = NULL
    /\ prompts = <<>>
    /\ twilioOut = <<>>
    /\ outFor = <<>>
    /\ openaiCalls = <<>>
    /\ transferLog = <<>>
    /\ janeCalls = <<>>
    /\ StreamIdle
    /\ AuxIdle

Next ==
    \/ \E sid \in CallSids : OnSetup(sid)
    \/ \E u \in VoicePrompts : OnPrompt(u)
    \/ \E p \in 1..MaxPrompts, o \in JaneOutcomes : JaneSettle(p, o)
    \/ \E p \in 1..MaxPrompts, ok \in BOOLEAN : TransferSettle(p, ok)
    \/ \E p \in 1..MaxPrompts, o \in FetchOutcomes : OpenAISettle(p, o)
    \/ TwilioClose

Spec == Init /\ [][Next]_vars


(***************************************************************************)
(* The streaming text bridge (part_002:84-189).                            *)
(*                                                                         *)
(* connPc: "accepted"   the relay connection was accepted, handler not run *)
(*         "connecting" the handler awaits connectOpenAI                   *)
(*         "bridged"    the handlers of both sockets are registered        *)
(*         "failed"     the catch block ran                                *)
(* The model service (upstream) answers the response.create requests it    *)
(* received one after the other: some text deltas (a delta may be empty),  *)
(* then response.completed or response.error; it may also stay silent.     *)
(*   upstream.asked  response.create requests received                     *)
(*   upstream.done   responses ended                                       *)
(*   upstream.k      deltas emitted so far, at most MaxDeltas               *)
(* openaiIn is the last event the model socket's handler received, with    *)
(* a sequence bit and the caller socket's state at that moment.            *)
(***************************************************************************)
MaxDeltas == 2

PRIMING == [instructions |-> TRUE]

UpMsg(type, item) == [type |-> type, item |-> item]

DeltaText(k) == <<"tok", Digit[k + 1]>>

\* the events the service can emit next
NextEvents ==
    IF upstream.asked = upstream.done THEN {}
    ELSE LET rid == upstream.done + 1
         IN  { [type |-> "response.completed", delta |-> NoText, rid |-> rid],
               [type |-> "response.error", delta |-> NoText, rid |-> rid] }
             \cup (IF upstream.k < MaxDeltas
                   THEN { [type |-> "response.output_text.delta",
                           delta |-> DeltaText(upstream.k + 1), rid |-> rid],
                          [type |-> "response.output_text.delta",
                           delta |-> NoText, rid |-> rid] }
                   ELSE {})

Emitted(ev) ==
    IF ev.type = "response.output_text.delta"
    THEN [upstream EXCEPT !.k = @ + 1]
    ELSE [upstream EXCEPT !.done = @ + 1]

\* the service receives what was written to an open model socket
Asked(n) == [upstream EXCEPT !.asked = @ + n]

StreamFixed == <<variant, OPENAI_API_KEY, JANE_LOOKUPS_ENABLED, twilioCreds, currentCallSid,
                 openaiCalls, transferLog, janeCalls, auxVars>>

\* part_002:84-93: the handler up to its await
Connect ==
    /\ connPc = "accepted"
    /\ IF ~OPENAI_API_KEY
       THEN /\ connPc' = "failed"
            /\ twilioWS' = IF twilioWS = "OPEN" THEN "CLOSING" ELSE twilioWS
            /\ UNCHANGED openaiWS
       ELSE /\ connPc' = "connecting"
            /\ openaiWS' = "CONNECTING"
            /\ UNCHANGED twilioWS
    /\ UNCHANGED <<prompts, twilioOut, outFor, openaiOut, openaiIn, upstream>>
    /\ UNCHANGED StreamFixed

\* part_002:205, 94-183: "open" resolves the promise; the handler primes the
\* model and registers the handlers of both sockets
ConnectOpen ==
    /\ connPc = "connecting"
    /\ openaiWS = "CONNECTING"
    /\ openaiWS' = "OPEN"
    /\ connPc' = "bridged"
    /\ openaiOut' = Append(openaiOut, UpMsg("response.create", PRIMING))
    /\ upstream' = Asked(1)
    /\ UNCHANGED <<twilioWS, prompts, twilioOut, outFor, openaiIn>>
    /\ UNCHANGED StreamFixed

\* part_002:206, 184-188: "error" rejects it; the catch block closes the caller socket
ConnectError ==
    /\ connPc = "connecting"
    /\ openaiWS = "CONNECTING"
    /\ openaiWS' = "CLOSED"
    /\ connPc' = "failed"
    /\ twilioWS' = IF twilioWS = "OPEN" THEN "CLOSING" ELSE twilioWS
    /\ UNCHANGED <<prompts, twilioOut, outFor, openaiOut, openaiIn, upstream>>
    /\ UNCHANGED StreamFixed

StreamVoicePrompts == {Utt({"color"}, <<>>), Utt({"hours"}, <<>>), NoVoice}

\* part_002:104-130: a prompt event on the caller socket
StreamPrompt(u) ==
    LET p == Len(prompts) + 1
        heard == connPc = "bridged"
    IN  /\ connPc \in {"connecting", "bridged"}
        /\ twilioWS = "OPEN"
        /\ p <= MaxPrompts
        /\ prompts' = Append(prompts,
               Frame(u, IF ~heard THEN "nolistener" ELSE IF u = NoVoice THEN "ignored" ELSE "stream",
                     "done"))
        /\ IF heard /\ u # NoVoice
           THEN /\ openaiOut' = safeSend(openaiWS,
                                   safeSend(openaiWS, openaiOut, UpMsg("conversation.item.create", u)),
                                   UpMsg("response.create", NoVoice))
                /\ upstream' = IF openaiWS = "OPEN" THEN Asked(1) ELSE upstream
           ELSE UNCHANGED <<openaiOut, upstream>>
        /\ UNCHANGED <<connPc, twilioWS, openaiWS, twilioOut, outFor, openaiIn>>
        /\ UNCHANGED StreamFixed

\* variant of Forward that ends the turn on every delta and drops the completion
Forward_LastOnDelta(m, ws, sent) ==
    IF m.type = "response.output_text.delta" /\ m.delta # NoText
    THEN safeSend(ws, sent, TextMsg(m.delta, TRUE))
    ELSE sent

\* part_002:159-180: the message handler of the model socket
Forward(m, ws, sent) ==
    IF m.type = "response.output_text.delta" /\ m.delta # NoText
    THEN safeSend(ws, sent, TextMsg(m.delta, FALSE))
    ELSE IF m.type = "response.completed"
    THEN safeSend(ws, sent, TextMsg(NoText, TRUE))
    ELSE sent

OpenAIMessage ==
    \E ev \in NextEvents :
    /\ connPc = "bridged"
    /\ openaiWS \in {"OPEN", "CLOSING"}
    /\ upstream' = Emitted(ev)
    /\ openaiIn' = [seq |-> 1 - openaiIn.seq, ev |-> ev, callerOpen |-> twilioWS = "OPEN"]
    /\ twilioOut' = Forward(ev, twilioWS, twilioOut)
    /\ outFor' = IF Len(twilioOut') > Len(twilioOut) THEN Append(outFor, ev.rid) ELSE outFor
    /\ UNCHANGED <<connPc, twilioWS, openaiWS, prompts, openaiOut>>
    /\ UNCHANGED StreamFixed

\* part_002:153-156: the caller socket closes; its close handler, once
\* registered, closes the model socket
StreamTwilioClose ==
    /\ connPc # "none"
    /\ twilioWS \in {"OPEN", "CLOSING"}
    /\ twilioWS' = "CLOSED"
    /\ openaiWS' = IF connPc = "bridged" /\ openaiWS = "OPEN" THEN "CLOSING" ELSE openaiWS
    /\ UNCHANGED <<connPc, prompts, twilioOut, outFor, openaiOut, openaiIn, upstream>>
    /\ UNCHANGED StreamFixed

\* part_002:182: the model socket closes; the handler logs
OpenAIClose ==
    /\ connPc = "bridged"
    /\ openaiWS \in {"OPEN", "CLOSING"}
    /\ openaiWS' = "CLOSED"
    /\ upstream' = [upstream EXCEPT !.done = upstream.asked]
    /\ UNCHANGED <<connPc, twilioWS, prompts, twilioOut, outFor, openaiOut, openaiIn>>
    /\ UNCHANGED StreamFixed

StreamInit ==
    /\ variant = "stream"
    /\ OPENAI_API_KEY \in BOOLEAN
    /\ JANE_LOOKUPS_ENABLED = FALSE
    /\ twilioCreds = FALSE
    /\ twilioWS = "OPEN"
    /\ currentCallSid = NULL
    /\ prompts = <<>>
    /\ twilioOut = <<>>
    /\ outFor = <<>>
    /\ openaiCalls = <<>>
    /\ transferLog = <<>>
    /\ janeCalls = <<>>
    /\ connPc = "accepted"
    /\ openaiWS = "NONE"
    /\ openaiOut = <<>>
    /\ openaiIn = [seq |-> 0, ev |-> NoEvent, callerOpen |-> TRUE]
    /\ upstream = [asked |-> 0, done |-> 0, k |-> 0]
    /\ AuxIdle

StreamNext ==
    \/ Connect
    \/ ConnectOpen
    \/ ConnectError
    \/ \E u \in StreamVoicePrompts : StreamPrompt(u)
    \/ OpenAIMessage
    \/ StreamTwilioClose
    \/ OpenAIClose

SpecStream == StreamInit /\ [][StreamNext]_vars

(***************************************************************************)
(* The ZIP servers: the table loader and the lookups of                    *)
(*   "zipfile"   src/server.js:596-829 (table from a file, raw replies)    *)
(*   "adaptive"  src/unnamed/part_000:1-185 (table from a file or a URL)   *)
(* A table is a set of rows [zip, min, fee] with unique zips; amounts are  *)
(* in cents.  load.map is the Map under construction, load.rest the rows   *)
(* of the source not yet looked at.                                        *)
(***************************************************************************)
MaxLoads == 2

\* a cell of a source row: <<n>> when parseFloat gives the number n, <<>> when it gives NaN
NaN == <<>>

\* a row after normHeaders, its code stripped of non-digits, its numbers
\* after parseFloat: amounts in cents, lead in minutes
RawRow(zipcode, min, fee, lead) == [zipcode |-> zipcode, min |-> min, fee |-> fee, lead |-> lead]

FileA == <<RawRow("95816", <<4000>>, <<199>>, <<30>>), RawRow("95632", <<5000>>, <<299>>, NaN)>>

FileB == <<RawRow("95816", <<6000>>, <<399>>, <<60>>), RawRow("958", <<4250>>, <<200>>, <<0>>),
           RawRow("95632", <<7000>>, <<499>>, <<90>>), RawRow("95758", NaN, <<499>>, <<45>>),
           RawRow("95758", <<-500>>, <<499>>, <<45>>)>>

\* what reading and decoding the configured source can give
Sources ==
    { [kind |-> "unreadable"], [kind |-> "non2xx"], [kind |-> "unparseable"],
      [kind |-> "badext"], [kind |-> "rows", rows |-> FileA], [kind |-> "rows", rows |-> FileB] }

FiveDigits == {"95816", "95632", "95758", "99999"}

\* server.js:649-655 keeps any row with a digit in its code; part_000:90-96
\* keeps five-digit codes only
RowOk(r) ==
    /\ IF variant = "adaptive" THEN r.zipcode \in FiveDigits ELSE r.zipcode # ""
    /\ r.min # NaN
    /\ r.fee # NaN

\* map.set(z, {...})
SetRow(map, r) ==
    {x \in map : x.zip # r.zipcode} \cup {[zip |-> r.zipcode, min |-> r.min[1], fee |-> r.fee[1], lead |-> r.lead]}

\* part_000:79-114, server.js:639-671: the map one source gives
RECURSIVE parseZipTable(_, _)
parseZipTable(rows, map) ==
    IF rows = <<>> THEN map
    ELSE parseZipTable(Tail(rows), IF RowOk(Head(rows)) THEN SetRow(map, Head(rows)) ELSE map)

\* the administrative reload of the adaptive server; server.js loads once, at listen
Reloadable == variant = "adaptive"

\* part_000:131-138, server.js:635-637, 802-803
LoadStart ==
    /\ load.pc = "idle"
    /\ load.n < MaxLoads
    /\ load.n = 0 \/ Reloadable
    /\ \E src \in Sources :
           /\ (src.kind = "non2xx" => variant = "adaptive")
           /\ load' = [load EXCEPT !.pc = "reading", !.src = src, !.n = @ + 1,
                                   !.map = EmptyTable, !.rest = <<>>]
    /\ UNCHANGED <<variant, twilioWS, prompts, twilioOut, outFor, unhandled, OUTPUT_JSON,
                   ZIP_TABLE, seen, fn, schemaCursor,
                   logged, commitTimer, sessions>>
    /\ UNCHANGED <<OPENAI_API_KEY, JANE_LOOKUPS_ENABLED, twilioCreds, currentCallSid,
                   openaiCalls, transferLog, janeCalls>>
    /\ UNCHANGED streamVars

\* variant of FailedLoadTable that keeps the table of the last good load
FailedLoadTable_KeepsOld(old, kind) == old

\* the table after a load that failed: part_000:140-143 assigns a new Map;
\* server.js:637-640 throws before its assignment, 670-674 assigns the empty
\* map of an unsupported extension
FailedLoadTable(old, kind) ==
    IF variant = "adaptive" \/ kind = "badext" THEN EmptyTable ELSE old

\* how the failure is made known: the rejection the caller catches and logs
\* (server.js:803), the error logged by bootZipTable (part_000:141), the
\* warning of server.js:671
FailedLoadReport(kind) ==
    IF variant = "adaptive" THEN "logged"
    ELSE IF kind = "badext" THEN "warned" ELSE "rejected"

\* the awaited read settles
LoadRead ==
    /\ load.pc = "reading"
    /\ IF load.src.kind = "rows"
       THEN /\ load' = [load EXCEPT !.pc = "building", !.rest = load.src.rows]
            /\ UNCHANGED ZIP_TABLE
       ELSE /\ load' = [load EXCEPT !.pc = "idle", !.last = "failed",
                                    !.report = FailedLoadReport(load.src.kind)]
            /\ ZIP_TABLE' = FailedLoadTable(ZIP_TABLE, load.src.kind)
    /\ UNCHANGED <<variant, twilioWS, prompts, twilioOut, outFor, unhandled, OUTPUT_JSON,
                   seen, fn, schemaCursor,
                   logged, commitTimer, sessions>>
    /\ UNCHANGED <<OPENAI_API_KEY, JANE_LOOKUPS_ENABLED, twilioCreds, currentCallSid,
                   openaiCalls, transferLog, janeCalls>>
    /\ UNCHANGED streamVars

\* variant of LoadBuildRow that writes every row into the global table
LoadBuildRow_InPlace ==
    /\ load.pc = "building"
    /\ load.rest # <<>>
    /\ load' = [load EXCEPT !.rest = Tail(@),
                            !.map = IF RowOk(Head(load.rest)) THEN SetRow(@, Head(load.rest)) ELSE @]
    /\ ZIP_TABLE' = IF RowOk(Head(load.rest)) THEN SetRow(ZIP_TABLE, Head(load.rest)) ELSE ZIP_TABLE
    /\ UNCHANGED <<variant, twilioWS, prompts, twilioOut, outFor, unhandled, OUTPUT_JSON,
                   seen, fn, schemaCursor,
                   logged, commitTimer, sessions>>
    /\ UNCHANGED <<OPENAI_API_KEY, JANE_LOOKUPS_ENABLED, twilioCreds, currentCallSid,
                   openaiCalls, transferLog, janeCalls>>
    /\ UNCHANGED streamVars

\* one turn of the loop over the rows (part_000:87-97, server.js:646-656)
LoadBuildRow ==
    /\ load.pc = "building"
    /\ load.rest # <<>>
    /\ load' = [load EXCEPT !.rest = Tail(@),
                            !.map = IF RowOk(Head(load.rest)) THEN SetRow(@, Head(load.rest)) ELSE @]
    /\ UNCHANGED <<variant, twilioWS, prompts, twilioOut, outFor, unhandled, OUTPUT_JSON,
                   ZIP_TABLE, seen, fn, schemaCursor,
                   logged, commitTimer, sessions>>
    /\ UNCHANGED <<OPENAI_API_KEY, JANE_LOOKUPS_ENABLED, twilioCreds, currentCallSid,
                   openaiCalls, transferLog, janeCalls>>
    /\ UNCHANGED streamVars

\* ZIP_TABLE = map (server.js:674, part_000:134, 137)
LoadPublish ==
    /\ load.pc = "building"
    /\ load.rest = <<>>
    /\ ZIP_TABLE' = load.map
    /\ load' = [load EXCEPT !.pc = "idle", !.last = "ok", !.report = "ok"]
    /\ UNCHANGED <<variant, twilioWS, prompts, twilioOut, outFor, unhandled, OUTPUT_JSON,
                   seen, fn, schemaCursor,
                   logged, commitTimer, sessions>>
    /\ UNCHANGED <<OPENAI_API_KEY, JANE_LOOKUPS_ENABLED, twilioCreds, currentCallSid,
                   openaiCalls, transferLog, janeCalls>>
    /\ UNCHANGED streamVars

\* part_000:149-155
deliveryTimeText(lead) ==
    IF lead = NaN \/ lead[1] = 0 THEN "Generally 30 min to 2 hours"
    ELSE IF lead[1] <= 30 THEN "Generally 1 hour to 2 hours"
    ELSE IF lead[1] >= 90 THEN "Generally 1 and a half hours to 2 and a half hours"
    ELSE "Generally 1 hour to 2 hours"

\* server.js:683-688
deliveryTimeFromLead(lead) ==
    IF lead = NaN \/ lead[1] <= 0 THEN "Generally 30 min to 2 hours"
    ELSE IF lead[1] <= 30 THEN "Generally 1 hour to 2 hours"
    ELSE IF lead[1] <= 45 THEN "Generally 1 and a half hours to 2 and a half hours"
    ELSE "Generally 1 hour to 2 hours"

DeliveryTime(lead) ==
    IF variant = "adaptive" THEN deliveryTimeText(lead) ELSE deliveryTimeFromLead(lead)

\* server.js:690-700, part_000:160-170
buildZipJSON(table, zip) ==
    IF \E r \in table : r.zip = zip
    THEN LET row == CHOOSE r \in table : r.zip = zip
         IN  [zip |-> zip, fee |-> row.fee, minimum |-> row.min,
              deliveryTime |-> DeliveryTime(row.lead)]
    ELSE NoRec

\* GET /zones (server.js:762-766), buildZipArray (part_000:172-185)
Lookup(zip) ==
    /\ seen' = [zip |-> zip, table |-> ZIP_TABLE, loading |-> load.pc # "idle"]
    /\ seen' # seen
    /\ UNCHANGED <<variant, twilioWS, prompts, twilioOut, outFor, unhandled, OUTPUT_JSON,
                   ZIP_TABLE, load, fn, schemaCursor,
                   logged, commitTimer, sessions>>
    /\ UNCHANGED <<OPENAI_API_KEY, JANE_LOOKUPS_ENABLED, twilioCreds, currentCallSid,
                   openaiCalls, transferLog, janeCalls>>
    /\ UNCHANGED streamVars

\* a frame received on the relay socket of the zipfile server: json tells
\* whether JSON.parse accepts it
ZipPayload(json, asksDelivery, zips) ==
    [json |-> json, asksDelivery |-> asksDelivery, zips |-> zips]

ZipPayloads ==
    { ZipPayload(TRUE, TRUE, <<"95816">>), ZipPayload(FALSE, TRUE, <<"95816">>),
      ZipPayload(FALSE, TRUE, <<"99999">>), ZipPayload(TRUE, FALSE, <<>>),
      ZipPayload(FALSE, FALSE, <<"95816">>),
      ZipPayload(TRUE, TRUE, <<"95632", "95816", "95632">>) }

\* [...new Set(matches)] (server.js:774): each code once, in order of first occurrence
RECURSIVE FirstSeen(_, _)
FirstSeen(zips, seenZips) ==
    IF zips = <<>> THEN <<>>
    ELSE IF Head(zips) \in seenZips THEN FirstSeen(Tail(zips), seenZips)
    ELSE <<Head(zips)>> \o FirstSeen(Tail(zips), seenZips \cup {Head(zips)})

RawMsg(text) == [raw |-> text]

ArrayMsg(items) == [array |-> items]

\* String(n) of an amount: no trailing zero after the point
NumberToString(cents) ==
    IF cents < 0 THEN <<"-">> \o NatStr((0 - cents) \div 100)
    ELSE IF cents % 100 = 0 THEN NatStr(cents \div 100)
    ELSE IF cents % 10 = 0 THEN NatStr(cents \div 100) \o <<".", Digit[((cents % 100) \div 10) + 1]>>
    ELSE NatStr(cents \div 100) \o <<".", Digit[((cents % 100) \div 10) + 1], Digit[(cents % 10) + 1]>>

\* n.toFixed(2)
toFixed2(cents) ==
    NatStr(cents \div 100) \o <<".", Digit[((cents % 100) \div 10) + 1], Digit[(cents % 10) + 1]>>

\* zipDashed (server.js:678-680), as speakZip
zipDashed(zip) == speakZip(zip)

\* server.js:702-709; the handler passes the code of an item it has found
buildZipSpoken(item) ==
    <<"For zip code", zipDashed(item.zip), "the delivery minimum is", "$">>
    \o NumberToString(item.minimum) \o <<"the delivery fee is", "$">> \o toFixed2(item.fee)
    \o <<"and the delivery time is", item.deliveryTime>>

\* server.js:755-794: extractText gives a text for every payload; the
\* handler answers a delivery question that names a code
ZipReply(m) ==
    LET zips == FirstSeen(m.zips, {})
        items == SelectSeq([i \in 1..Len(zips) |-> buildZipJSON(ZIP_TABLE, zips[i])],
                           LAMBDA x : x # NoRec)
    IN  IF ~(m.asksDelivery /\ m.zips # <<>>) THEN <<>>
        ELSE IF items = <<>>
        THEN <<IF OUTPUT_JSON THEN ArrayMsg(<<>>)
               ELSE RawMsg(<<"I couldn't find those zip codes. Can you try another?">>)>>
        ELSE <<IF OUTPUT_JSON THEN ArrayMsg(items) ELSE RawMsg(buildZipSpoken(items[1]))>>

ZipMessage(m) ==
    LET p == Len(prompts) + 1
    IN  /\ variant = "zipfile"
        /\ twilioWS = "OPEN"
        /\ p <= MaxPrompts
        /\ prompts' = Append(prompts, m)
        /\ twilioOut' = twilioOut \o ZipReply(m)
        /\ outFor' = outFor \o [i \in 1..Len(ZipReply(m)) |-> p]
        /\ UNCHANGED <<variant, twilioWS, unhandled, OUTPUT_JSON, ZIP_TABLE, load, seen, fn, schemaCursor,
                   logged, commitTimer, sessions>>
        /\ UNCHANGED <<OPENAI_API_KEY, JANE_LOOKUPS_ENABLED, twilioCreds, currentCallSid,
                       openaiCalls, transferLog, janeCalls>>
        /\ UNCHANGED streamVars

\* server.js:796-798
ZipClose ==
    /\ variant = "zipfile"
    /\ twilioWS = "OPEN"
    /\ twilioWS' = "CLOSED"
    /\ UNCHANGED <<variant, prompts, twilioOut, outFor, unhandled, OUTPUT_JSON, ZIP_TABLE,
                   load, seen, fn, schemaCursor,
                   logged, commitTimer, sessions>>
    /\ UNCHANGED <<OPENAI_API_KEY, JANE_LOOKUPS_ENABLED, twilioCreds, currentCallSid,
                   openaiCalls, transferLog, janeCalls>>
    /\ UNCHANGED streamVars

ZipInit ==
    /\ variant \in {"zipfile", "adaptive"}
    /\ OUTPUT_JSON \in BOOLEAN
    /\ variant = "adaptive" => ~OUTPUT_JSON
    /\ OPENAI_API_KEY = FALSE
    /\ JANE_LOOKUPS_ENABLED = FALSE
    /\ twilioCreds = FALSE
    /\ twilioWS = "OPEN"
    /\ currentCallSid = NULL
    /\ prompts = <<>>
    /\ twilioOut = <<>>
    /\ outFor = <<>>
    /\ openaiCalls = <<>>
    /\ transferLog = <<>>
    /\ janeCalls = <<>>
    /\ StreamIdle
    /\ unhandled = FALSE
    /\ ZIP_TABLE = EmptyTable
    /\ load = NoLoad
    /\ seen = NoSeen
    /\ schemaCursor = 0
    /\ ExtraIdle
    /\ fn = NoFn

ZipNext ==
    \/ LoadStart
    \/ LoadRead
    \/ LoadBuildRow
    \/ LoadPublish
    \/ \E zip \in FiveDigits : Lookup(zip)
    \/ \E m \in ZipPayloads : ZipMessage(m)
    \/ ZipClose

SpecZip == ZipInit /\ [][ZipNext]_vars


(***************************************************************************)
(* The raw bridge (src/unnamed/part_001:53-84): the connection handler     *)
(* creates a realtime session over HTTPS, opens the model socket with the  *)
(* secret it got and pipes frames both ways.  It has no try/catch and      *)
(* registers no "error" listener.                                          *)
(*   connPc: "accepted" | "creating" | "bridged" | "failed"                *)
(***************************************************************************)
RawFixed == <<variant, OPENAI_API_KEY, JANE_LOOKUPS_ENABLED, twilioCreds, currentCallSid,
              openaiCalls, transferLog, janeCalls, outFor, openaiIn, OUTPUT_JSON,
              ZIP_TABLE, load, seen, fn, schemaCursor,
                   logged, commitTimer, sessions>>

\* part_001:53-67: the handler up to its await of fetch
RawConnect ==
    /\ connPc = "accepted"
    /\ connPc' = "creating"
    /\ UNCHANGED <<twilioWS, openaiWS, prompts, twilioOut, openaiOut, upstream, unhandled>>
    /\ UNCHANGED RawFixed

SessionOutcomes == {"rejected", "nosecret", "ok"}

\* part_001:57-72: fetch rejects, or the body has no client_secret (an error
\* body, as without a valid key), or the model socket is created
RawSessionSettle(outcome) ==
    /\ connPc = "creating"
    /\ IF outcome = "ok"
       THEN /\ connPc' = "bridged"
            /\ openaiWS' = "CONNECTING"
            /\ UNCHANGED unhandled
       ELSE /\ connPc' = "failed"
            /\ unhandled' = TRUE
            /\ UNCHANGED openaiWS
    /\ UNCHANGED <<twilioWS, prompts, twilioOut, openaiOut, upstream>>
    /\ UNCHANGED RawFixed

RawUpstreamOpen ==
    /\ connPc = "bridged"
    /\ openaiWS = "CONNECTING"
    /\ openaiWS' = "OPEN"
    /\ UNCHANGED <<connPc, twilioWS, prompts, twilioOut, openaiOut, upstream, unhandled>>
    /\ UNCHANGED RawFixed

\* the handshake fails: "error" is emitted on a socket without an error listener
RawUpstreamError ==
    /\ connPc = "bridged"
    /\ openaiWS = "CONNECTING"
    /\ openaiWS' = "CLOSED"
    /\ unhandled' = TRUE
    /\ UNCHANGED <<connPc, twilioWS, prompts, twilioOut, openaiOut, upstream>>
    /\ UNCHANGED RawFixed

RawFrames == {[frame |-> "setup"], [frame |-> "prompt"], [frame |-> "interrupt"]}

\* part_001:76: ws.on("message", (msg) => openAiSocket.send(msg)); send
\* throws while the model socket is connecting
RawCallerMessage(m) ==
    /\ connPc \in {"creating", "bridged"}
    /\ twilioWS = "OPEN"
    /\ Len(prompts) < MaxPrompts
    /\ prompts' = Append(prompts, m)
    /\ openaiOut' = IF connPc = "bridged" THEN safeSend(openaiWS, openaiOut, m) ELSE openaiOut
    /\ unhandled' = (unhandled \/ (connPc = "bridged" /\ openaiWS = "CONNECTING"))
    /\ UNCHANGED <<connPc, twilioWS, openaiWS, twilioOut, upstream>>
    /\ UNCHANGED RawFixed

\* part_001:75: openAiSocket.on("message", (msg) => ws.send(msg))
RawUpstreamMessage ==
    /\ connPc = "bridged"
    /\ openaiWS \in {"OPEN", "CLOSING"}
    /\ upstream.k < MaxDeltas
    /\ upstream' = [upstream EXCEPT !.k = @ + 1]
    /\ twilioOut' = safeSend(twilioWS, twilioOut, RawMsg(DeltaText(upstream.k + 1)))
    /\ UNCHANGED <<connPc, twilioWS, openaiWS, prompts, openaiOut, unhandled>>
    /\ UNCHANGED RawFixed

\* part_001:78-81: the close handler exists once the session was created;
\* close() on a connecting socket aborts the handshake, which the ws library
\* may report as an "error" event
RawCallerClose ==
    /\ connPc # "accepted"
    /\ twilioWS = "OPEN"
    /\ twilioWS' = "CLOSED"
    /\ IF connPc = "bridged" /\ openaiWS \in {"OPEN", "CONNECTING"}
       THEN /\ openaiWS' = "CLOSING"
            /\ unhandled' \in {unhandled, unhandled \/ openaiWS = "CONNECTING"}
       ELSE UNCHANGED <<openaiWS, unhandled>>
    /\ UNCHANGED <<connPc, prompts, twilioOut, openaiOut, upstream>>
    /\ UNCHANGED RawFixed

\* part_001:83
RawUpstreamClose ==
    /\ connPc = "bridged"
    /\ openaiWS \in {"OPEN", "CLOSING"}
    /\ openaiWS' = "CLOSED"
    /\ UNCHANGED <<connPc, twilioWS, prompts, twilioOut, openaiOut, upstream, unhandled>>
    /\ UNCHANGED RawFixed

RawInit ==
    /\ variant = "raw"
    /\ OPENAI_API_KEY \in BOOLEAN
    /\ JANE_LOOKUPS_ENABLED = FALSE
    /\ twilioCreds = FALSE
    /\ twilioWS = "OPEN"
    /\ currentCallSid = NULL
    /\ prompts = <<>>
    /\ twilioOut = <<>>
    /\ outFor = <<>>
    /\ openaiCalls = <<>>
    /\ transferLog = <<>>
    /\ janeCalls = <<>>
    /\ connPc = "accepted"
    /\ openaiWS = "NONE"
    /\ openaiOut = <<>>
    /\ openaiIn = [seq |-> 0, ev |-> NoEvent, callerOpen |-> TRUE]
    /\ upstream = [asked |-> 0, done |-> 0, k |-> 0]
    /\ AuxIdle

RawNext ==
    \/ RawConnect
    \/ \E o \in SessionOutcomes : RawSessionSettle(o)
    \/ RawUpstreamOpen
    \/ RawUpstreamError
    \/ \E m \in RawFrames : RawCallerMessage(m)
    \/ RawUpstreamMessage
    \/ RawCallerClose
    \/ RawUpstreamClose

SpecRaw == RawInit /\ [][RawNext]_vars


(***************************************************************************)
(* The sanitizer on its own: toSpokenText applied to bounded texts.        *)
(***************************************************************************)
MaxParts == 4

SanitizerParts == {"https://", "ht", "tp://", "www.", DOMAIN_NAME, "chris", "@", "/", "visit us at"}

\* a part sequence stands for one string: "ht" followed by "tp://" is the scheme "http://"
Spliced(t) == \E i \in 1..Len(t) : t[i] = "ht" /\ i < Len(t) /\ t[i + 1] = "tp://"

SanitizerInputs ==
    {t \in UNION {[1..n -> SanitizerParts] : n \in 0..MaxParts} : ~Spliced(t)}

allButFn == <<variant, OPENAI_API_KEY, JANE_LOOKUPS_ENABLED, twilioCreds, twilioWS,
              currentCallSid, prompts, twilioOut, outFor, openaiCalls, transferLog,
              janeCalls, connPc, openaiWS, openaiOut, openaiIn, upstream,
              unhandled, OUTPUT_JSON, ZIP_TABLE, load, seen, schemaCursor,
              logged, commitTimer, sessions>>

\* no session: only fn matters
PureIdle ==
    /\ variant = "none"
    /\ OPENAI_API_KEY = FALSE
    /\ JANE_LOOKUPS_ENABLED = FALSE
    /\ twilioCreds = FALSE
    /\ twilioWS = "CLOSED"
    /\ currentCallSid = NULL
    /\ prompts = <<>>
    /\ twilioOut = <<>>
    /\ outFor = <<>>
    /\ openaiCalls = <<>>
    /\ transferLog = <<>>
    /\ janeCalls = <<>>
    /\ StreamIdle
    /\ unhandled = FALSE
    /\ OUTPUT_JSON = FALSE
    /\ ZIP_TABLE = EmptyTable
    /\ load = NoLoad
    /\ seen = NoSeen
    /\ schemaCursor = 0
    /\ ExtraIdle

SanitizeInit ==
    /\ PureIdle
    /\ \E t \in SanitizerInputs :
           fn = [name |-> "toSpokenText", input |-> t, pc |-> "ready", out |-> <<>>]

ApplySanitizer ==
    /\ fn.name = "toSpokenText"
    /\ fn.pc = "ready"
    /\ fn' = [fn EXCEPT !.pc = "done", !.out = toSpokenText(fn.input)]
    /\ UNCHANGED allButFn

SpecSanitize == SanitizeInit /\ [][ApplySanitizer]_vars


(***************************************************************************)
(* The intent classifier on its own: handleLocalIntent called repeatedly   *)
(* with one utterance while a session exists.                              *)
(***************************************************************************)
MaxWords == 2
MaxCalls == 2

ClassifyWords == {"person", "do you deliver", "hotel", "bar", "minimum", "fee", "hours",
                  "address", "website", "id", "parking", "deals", "vendor", "demo", "color"}

ClassifyInputs ==
    {Utt(ws, zs) : ws \in {w \in SUBSET ClassifyWords : Cardinality(w) <= MaxWords},
                   zs \in {<<>>, <<"95816">>, <<"99999">>}}

ClassifyInit ==
    /\ variant \in {"basic", "full"}
    /\ OPENAI_API_KEY = FALSE
    /\ JANE_LOOKUPS_ENABLED = FALSE
    /\ twilioCreds = FALSE
    /\ twilioWS = "OPEN"
    /\ currentCallSid \in CallSids
    /\ prompts = <<>>
    /\ twilioOut = <<>>
    /\ outFor = <<>>
    /\ openaiCalls = <<>>
    /\ transferLog = <<>>
    /\ janeCalls = <<>>
    /\ StreamIdle
    /\ unhandled = FALSE
    /\ OUTPUT_JSON = FALSE
    /\ ZIP_TABLE = EmptyTable
    /\ load = NoLoad
    /\ seen = NoSeen
    /\ schemaCursor = 0
    /\ ExtraIdle
    /\ \E u \in ClassifyInputs : fn = [name |-> "handleLocalIntent", input |-> u, out |-> <<>>]

\* one call: the function has no assignment to anything outside its locals
CallClassify ==
    /\ fn.name = "handleLocalIntent"
    /\ Len(fn.out) < MaxCalls
    /\ fn' = [fn EXCEPT !.out = Append(@, LocalOf(fn.input))]
    /\ UNCHANGED allButFn

SpecClassify == ClassifyInit /\ [][CallClassify]_vars


(***************************************************************************)
(* The batch lookups on their own: GET /zones of the ZIP server and        *)
(* buildZipArray of the adaptive server, applied to a list of codes under  *)
(* a loaded table.                                                         *)
(***************************************************************************)
MaxCodes == 2

\* the 5-digit codes of a query, in order (server.js:743 q.match)
ZoneQueries == UNION {[1..n -> FiveDigits] : n \in 0..MaxCodes}

\* the table after a load of one of the sources, or before any load
LoadedTables ==
    {EmptyTable} \cup {parseZipTable(src.rows, EmptyTable) : src \in {x \in Sources : x.kind = "rows"}}

\* part_000:172-185
RECURSIVE buildZipArray(_, _, _)
buildZipArray(table, zips, seenZips) ==
    IF zips = <<>> THEN <<>>
    ELSE LET z == Head(zips)
             rec == buildZipJSON(table, z)
         IN  IF z \in seenZips \/ rec = NoRec
             THEN buildZipArray(table, Tail(zips), seenZips)
             ELSE <<rec>> \o buildZipArray(table, Tail(zips), seenZips \cup {z})

QueryInit ==
    /\ variant \in {"zipfile", "adaptive"}
    /\ OUTPUT_JSON = FALSE
    /\ OPENAI_API_KEY = FALSE
    /\ JANE_LOOKUPS_ENABLED = FALSE
    /\ twilioCreds = FALSE
    /\ twilioWS = "CLOSED"
    /\ currentCallSid = NULL
    /\ prompts = <<>>
    /\ twilioOut = <<>>
    /\ outFor = <<>>
    /\ openaiCalls = <<>>
    /\ transferLog = <<>>
    /\ janeCalls = <<>>
    /\ StreamIdle
    /\ unhandled = FALSE
    /\ ZIP_TABLE \in LoadedTables
    /\ load = NoLoad
    /\ seen = NoSeen
    /\ schemaCursor = 0
    /\ ExtraIdle
    /\ \E q \in ZoneQueries :
           fn = [name |-> "zones", zips |-> q, pc |-> "ready", status |-> 0, body |-> <<>>]

\* server.js:741-745: res.json(list) answers 200 whatever the list
GetZones ==
    /\ variant = "zipfile"
    /\ fn.name = "zones"
    /\ fn.pc = "ready"
    /\ fn' = [fn EXCEPT !.pc = "done", !.status = 200,
                        !.body = SelectSeq([i \in 1..Len(fn.zips) |-> buildZipJSON(ZIP_TABLE, fn.zips[i])],
                                           LAMBDA x : x # NoRec)]
    /\ UNCHANGED allButFn

\* part_000:172-185: the array alone; no route that answers with it is in the file
CallBuildZipArray ==
    /\ variant = "adaptive"
    /\ fn.name = "zones"
    /\ fn.pc = "ready"
    /\ fn' = [fn EXCEPT !.pc = "done", !.body = buildZipArray(ZIP_TABLE, fn.zips, {})]
    /\ UNCHANGED allButFn

QueryNext == GetZones \/ CallBuildZipArray

SpecQuery == QueryInit /\ [][QueryNext]_vars


(***************************************************************************)
(* The renderers on their own: the amounts of a zip-delivery reply and the *)
(* delivery time of a lead, applied to bounded inputs.                     *)
(***************************************************************************)
MaxCents == 250
MaxLead == 100

RenderIdle ==
    /\ OUTPUT_JSON = FALSE
    /\ OPENAI_API_KEY = FALSE
    /\ JANE_LOOKUPS_ENABLED = FALSE
    /\ twilioCreds = FALSE
    /\ twilioWS = "CLOSED"
    /\ currentCallSid = NULL
    /\ prompts = <<>>
    /\ twilioOut = <<>>
    /\ outFor = <<>>
    /\ openaiCalls = <<>>
    /\ transferLog = <<>>
    /\ janeCalls = <<>>
    /\ StreamIdle
    /\ unhandled = FALSE
    /\ ZIP_TABLE = EmptyTable
    /\ load = NoLoad
    /\ seen = NoSeen
    /\ schemaCursor = 0
    /\ ExtraIdle

RenderInit ==
    /\ RenderIdle
    /\ \/ /\ variant \in {"full", "zipfile"}
          /\ \E c \in 0..MaxCents :
                 fn = [name |-> "money", cents |-> c, pc |-> "ready", min |-> <<>>, fee |-> <<>>]
       \/ /\ variant \in {"zipfile", "adaptive"}
          /\ \E lead \in {NaN} \cup {<<n>> : n \in 0..MaxLead} :
                 fn = [name |-> "eta", lead |-> lead, pc |-> "ready", out |-> ""]

\* part_003:543-544 (both amounts through formatMoney), server.js:705-707
RenderMoney ==
    /\ fn.name = "money"
    /\ fn.pc = "ready"
    /\ fn' = [fn EXCEPT !.pc = "done",
                        !.min = IF variant = "full" THEN formatMoney(fn.cents)
                                ELSE <<"$">> \o NumberToString(fn.cents),
                        !.fee = IF variant = "full" THEN formatMoney(fn.cents)
                                ELSE <<"$">> \o toFixed2(fn.cents)]
    /\ UNCHANGED allButFn

\* part_000:149-155, server.js:683-688
RenderEta ==
    /\ fn.name = "eta"
    /\ fn.pc = "ready"
    /\ fn' = [fn EXCEPT !.pc = "done", !.out = DeliveryTime(fn.lead)]
    /\ UNCHANGED allButFn

RenderNext == RenderMoney \/ RenderEta

SpecRender == RenderInit /\ [][RenderNext]_vars


(***************************************************************************)
(* The adaptive server's choice of outbound shape.  The handler is not in  *)
(* the repository's files (part_000 stops before it); this part follows    *)
(* the file header (part_000:4-6) and the specification's description: an  *)
(* ordered list of candidate shapes, a cursor per connection starting at   *)
(* 0, advanced with a resend of the same payload when the provider rejects *)
(* the previous send's shape.                                              *)
(***************************************************************************)
MaxShapes == 3

SchemaPayloads == {"answer A", "answer B", "answer C"}

\* a payload in the candidate shape of index i
Shaped(i, payload) == [shape |-> i, payload |-> payload]

SchemaInit ==
    /\ variant = "adaptive"
    /\ OUTPUT_JSON = FALSE
    /\ OPENAI_API_KEY = FALSE
    /\ JANE_LOOKUPS_ENABLED = FALSE
    /\ twilioCreds = FALSE
    /\ twilioWS = "OPEN"
    /\ currentCallSid = NULL
    /\ prompts = <<>>
    /\ twilioOut = <<>>
    /\ outFor = <<>>
    /\ openaiCalls = <<>>
    /\ transferLog = <<>>
    /\ janeCalls = <<>>
    /\ StreamIdle
    /\ unhandled = FALSE
    /\ ZIP_TABLE = EmptyTable
    /\ load = NoLoad
    /\ seen = NoSeen
    /\ schemaCursor = 0
    /\ ExtraIdle
    /\ fn = NoFn

schemaFixed == <<variant, OPENAI_API_KEY, JANE_LOOKUPS_ENABLED, twilioCreds, currentCallSid,
                 openaiCalls, transferLog, janeCalls, connPc, openaiWS, openaiOut, openaiIn,
                 upstream, unhandled, OUTPUT_JSON, ZIP_TABLE, load, seen, fn,
                 logged, commitTimer, sessions>>

\* a prompt is answered in the shape the cursor points at
SchemaPrompt(payload) ==
    /\ twilioWS = "OPEN"
    /\ Len(prompts) < MaxPrompts
    /\ prompts' = Append(prompts, payload)
    /\ twilioOut' = Append(twilioOut, Shaped(schemaCursor, payload))
    /\ outFor' = Append(outFor, Len(prompts) + 1)
    /\ UNCHANGED <<twilioWS, schemaCursor>>
    /\ UNCHANGED schemaFixed

\* variant of SchemaError that starts again from the first candidate
SchemaError_Resets ==
    /\ twilioWS = "OPEN"
    /\ twilioOut # <<>>
    /\ schemaCursor + 1 < MaxShapes
    /\ schemaCursor' = IF schemaCursor = 0 THEN 1 ELSE 0
    /\ twilioOut' = Append(twilioOut, Shaped(schemaCursor', twilioOut[Len(twilioOut)].payload))
    /\ outFor' = Append(outFor, outFor[Len(outFor)])
    /\ UNCHANGED <<twilioWS, prompts>>
    /\ UNCHANGED schemaFixed

\* the provider rejects the shape of the previous send (error 64107): the
\* next candidate is taken and the same payload sent again
SchemaError ==
    /\ twilioWS = "OPEN"
    /\ twilioOut # <<>>
    /\ schemaCursor + 1 < MaxShapes
    /\ schemaCursor' = schemaCursor + 1
    /\ twilioOut' = Append(twilioOut, Shaped(schemaCursor', twilioOut[Len(twilioOut)].payload))
    /\ outFor' = Append(outFor, outFor[Len(outFor)])
    /\ UNCHANGED <<twilioWS, prompts>>
    /\ UNCHANGED schemaFixed

SchemaClose ==
    /\ twilioWS = "OPEN"
    /\ twilioWS' = "CLOSED"
    /\ UNCHANGED <<prompts, twilioOut, outFor, schemaCursor>>
    /\ UNCHANGED schemaFixed

SchemaNext ==
    \/ \E payload \in SchemaPayloads : SchemaPrompt(payload)
    \/ SchemaError
    \/ SchemaClose

SpecSchema == SchemaInit /\ [][SchemaNext]_vars


(***************************************************************************)
(* Events the handlers only log: interrupt, dtmf, error and any other      *)
(* type (server.js:121-136, part_002:132-150).  The full server's handler  *)
(* has no branch for them and falls off its end without a log line         *)
(* (part_003:332-478); the raw bridge does not decode frames at all and    *)
(* pipes them upstream like every frame (part_001:76).                     *)
(***************************************************************************)
LogOnlyTypes == {"interrupt", "dtmf", "error", "mark"}

EventPrompts == {Utt({"hours"}, <<>>), Utt({"color"}, <<>>)}

\* an event of one of these types arrives on the caller socket of a server
\* that decodes events; while the streaming handler awaits connectOpenAI no
\* listener is registered yet
OnEvent(type) ==
    /\ variant \in {"basic", "full", "stream"}
    /\ twilioWS = "OPEN"
    /\ connPc \in {"none", "connecting", "bridged"}
    /\ logged' = IF variant = "full" \/ connPc = "connecting" THEN logged ELSE type
    /\ UNCHANGED <<variant, OPENAI_API_KEY, JANE_LOOKUPS_ENABLED, twilioCreds, twilioWS,
                   currentCallSid, prompts, twilioOut, outFor, openaiCalls, transferLog,
                   janeCalls, connPc, openaiWS, openaiOut, openaiIn, upstream,
                   unhandled, OUTPUT_JSON, ZIP_TABLE, load, seen, fn, schemaCursor,
                   commitTimer, sessions>>

EventsInit ==
    \/ Init /\ OPENAI_API_KEY
    \/ StreamInit /\ OPENAI_API_KEY
    \/ RawInit /\ OPENAI_API_KEY

EventsNext ==
    \/ \E type \in LogOnlyTypes : OnEvent(type)
    \/ /\ variant \in {"basic", "full"}
       /\ \/ \E sid \in CallSids : OnSetup(sid)
          \/ \E u \in EventPrompts : OnPrompt(u)
          \/ \E p \in 1..MaxPrompts, o \in FetchOutcomes : OpenAISettle(p, o)
          \/ TwilioClose
    \/ /\ variant = "stream"
       /\ \/ Connect
          \/ ConnectOpen
          \/ ConnectError
          \/ \E u \in EventPrompts : StreamPrompt(u)
          \/ OpenAIMessage
          \/ StreamTwilioClose
          \/ OpenAIClose
    \/ /\ variant = "raw"
       /\ RawNext

SpecEvents == EventsInit /\ [][EventsNext]_vars


(***************************************************************************)
(* The audio bridge (part_002:507-627): caller audio is appended to the    *)
(* model's input buffer, and a timer re-armed by every media event commits *)
(* the buffer and asks for a response after COMMIT_SILENCE_MS of silence.  *)
(* The connection set-up is the text bridge's (Connect, ConnectOpen,       *)
(* ConnectError: part_002:521-535, 616-626).  A timer is named by the      *)
(* number of the media event that armed it.                                *)
(***************************************************************************)
MaxMedia == 2

AudioFixed == <<variant, OPENAI_API_KEY, JANE_LOOKUPS_ENABLED, twilioCreds, currentCallSid,
                outFor, openaiCalls, transferLog, janeCalls, openaiIn,
                unhandled, OUTPUT_JSON, ZIP_TABLE, load, seen, fn, schemaCursor,
                logged, sessions>>

\* variant of scheduleCommit that arms a new timer without clearing the old one
scheduleCommit_NoClear(t) ==
    [t EXCEPT !.handle = t.media + 1,
              !.pending = t.pending \cup {t.media + 1},
              !.media = t.media + 1]

\* part_002:512-519: clearTimeout(commitTimer), then a new timer
scheduleCommit(t) ==
    [t EXCEPT !.handle = t.media + 1,
              !.pending = (t.pending \ {t.handle}) \cup {t.media + 1},
              !.media = t.media + 1]

\* part_002:546-553: a media event with a payload
AudioMedia ==
    /\ connPc = "bridged"
    /\ twilioWS = "OPEN"
    /\ commitTimer.media < MaxMedia
    /\ openaiOut' = safeSend(openaiWS, openaiOut,
                             UpMsg("input_audio_buffer.append", commitTimer.media + 1))
    /\ commitTimer' = scheduleCommit(commitTimer)
    /\ UNCHANGED <<connPc, twilioWS, openaiWS, twilioOut, upstream, prompts>>
    /\ UNCHANGED AudioFixed

\* part_002:514-518: the timer's callback, COMMIT_SILENCE_MS after it was armed
CommitFire(t) ==
    /\ t \in commitTimer.pending
    /\ commitTimer' = [commitTimer EXCEPT !.pending = @ \ {t}, !.fired = t]
    /\ openaiOut' = safeSend(openaiWS,
                             safeSend(openaiWS, openaiOut, UpMsg("input_audio_buffer.commit", NoVoice)),
                             UpMsg("response.create", NoVoice))
    /\ UNCHANGED <<connPc, twilioWS, openaiWS, twilioOut, upstream, prompts>>
    /\ UNCHANGED AudioFixed

\* part_002:554-574: a transcript event with a text
AudioTranscript ==
    /\ connPc = "bridged"
    /\ twilioWS = "OPEN"
    /\ Len(prompts) < MaxPrompts - 1
    /\ prompts' = Append(prompts, Frame(Utt({"hours"}, <<>>), "transcript", "done"))
    /\ openaiOut' = safeSend(openaiWS,
                             safeSend(openaiWS, openaiOut,
                                      UpMsg("conversation.item.create", Utt({"hours"}, <<>>))),
                             UpMsg("response.create", NoVoice))
    /\ UNCHANGED <<connPc, twilioWS, openaiWS, twilioOut, upstream, commitTimer>>
    /\ UNCHANGED AudioFixed

\* part_002:575-582: a stop event closes both sockets
AudioStop ==
    /\ connPc = "bridged"
    /\ twilioWS = "OPEN"
    /\ twilioWS' = "CLOSING"
    /\ openaiWS' = IF openaiWS = "OPEN" THEN "CLOSING" ELSE openaiWS
    /\ UNCHANGED <<connPc, twilioOut, openaiOut, upstream, commitTimer, prompts>>
    /\ UNCHANGED AudioFixed

\* part_002:593-613: audio of a response is passed to the caller as a media
\* event, its end as a mark
AudioOut(done) ==
    /\ connPc = "bridged"
    /\ openaiWS \in {"OPEN", "CLOSING"}
    /\ upstream.k < MaxDeltas - 1
    /\ upstream' = [upstream EXCEPT !.k = @ + 1]
    /\ twilioOut' = safeSend(twilioWS, twilioOut,
                             IF done THEN [event |-> "mark", name |-> "segment_done"]
                             ELSE [event |-> "media", payload |-> upstream.k + 1])
    /\ UNCHANGED <<connPc, twilioWS, openaiWS, openaiOut, commitTimer, prompts>>
    /\ UNCHANGED AudioFixed

AudioInit ==
    /\ variant = "audio"
    /\ OPENAI_API_KEY \in BOOLEAN
    /\ JANE_LOOKUPS_ENABLED = FALSE
    /\ twilioCreds = FALSE
    /\ twilioWS = "OPEN"
    /\ currentCallSid = NULL
    /\ prompts = <<>>
    /\ twilioOut = <<>>
    /\ outFor = <<>>
    /\ openaiCalls = <<>>
    /\ transferLog = <<>>
    /\ janeCalls = <<>>
    /\ connPc = "accepted"
    /\ openaiWS = "NONE"
    /\ openaiOut = <<>>
    /\ openaiIn = [seq |-> 0, ev |-> NoEvent, callerOpen |-> TRUE]
    /\ upstream = [asked |-> 0, done |-> 0, k |-> 0]
    /\ AuxIdle

AudioNext ==
    \/ Connect
    \/ ConnectOpen
    \/ ConnectError
    \/ AudioMedia
    \/ \E t \in 1..MaxMedia : CommitFire(t)
    \/ AudioTranscript
    \/ AudioStop
    \/ \E done \in BOOLEAN : AudioOut(done)
    \/ StreamTwilioClose
    \/ OpenAIClose

SpecAudio == AudioInit /\ [][AudioNext]_vars


(***************************************************************************)
(* Several calls at once on the full server (part_003:327-486).  Each      *)
(* connection event runs the handler once: its twilioWS parameter and its  *)
(* currentCallSid are variables of that call of the handler, which the     *)
(* message listener registered in it closes over.                          *)
(*   sessions[s].ws              readyState of the connection's socket     *)
(*   sessions[s].currentCallSid  the closure's variable                    *)
(*   sessions[s].out             messages written to its socket            *)
(*   sessions[s].up              requests its handlers made upstream       *)
(*   sessions[s].pc              what its prompt handler awaits            *)
(*   sessions[s].n               prompts it has received                   *)
(* Every message and request is tagged with the session whose event        *)
(* caused it.                                                              *)
(***************************************************************************)
MaxSessions == 2

SessionIds == 1..MaxSessions

\* the CallSid the telephony layer gives the call of session s
SessionSid(s) == "CA" \o Digit[s + 1]

NoSession == [ws |-> "NONE", currentCallSid |-> NULL, out |-> <<>>, up |-> <<>>, pc |-> "none", n |-> 0]

SessionPrompts == {Utt({"hours"}, <<>>), Utt({"person"}, <<>>)}

sessionsFixed == <<variant, OPENAI_API_KEY, JANE_LOOKUPS_ENABLED, twilioCreds, twilioWS,
                   currentCallSid, prompts, twilioOut, outFor, openaiCalls, transferLog,
                   janeCalls, connPc, openaiWS, openaiOut, openaiIn, upstream,
                   unhandled, OUTPUT_JSON, ZIP_TABLE, load, seen, fn, schemaCursor,
                   logged, commitTimer>>

\* prompts handled so far by all sessions
Handled == LET F[k \in 0..MaxSessions] == IF k = 0 THEN 0 ELSE F[k - 1] + sessions[k].n
           IN  F[MaxSessions]

\* safeSend(twilioWS, m) in a handler of session s, for an event of session cause
SessionSend(ss, s, cause, m) ==
    IF ss[s].ws # "OPEN" THEN ss
    ELSE [ss EXCEPT ![s].out = Append(@, [msg |-> m, cause |-> cause])]

\* variant of StoreCallSid with one currentCallSid for the whole module
StoreCallSid_Global(ss, s, sid) ==
    [t \in DOMAIN ss |-> [ss[t] EXCEPT !.currentCallSid = sid]]

\* part_003:340-345: currentCallSid = msg.callSid || ... || null
StoreCallSid(ss, s, sid) ==
    [ss EXCEPT ![s].currentCallSid = sid]

\* part_003:327-331: a relay connection is accepted
SessionAccept(s) ==
    /\ sessions[s].ws = "NONE"
    /\ sessions' = [sessions EXCEPT ![s].ws = "OPEN"]
    /\ UNCHANGED sessionsFixed

SessionSetup(s) ==
    /\ sessions[s].ws = "OPEN"
    /\ sessions[s].currentCallSid = NULL
    /\ sessions' = StoreCallSid(sessions, s, SessionSid(s))
    /\ UNCHANGED sessionsFixed

\* part_003:347-437 up to the first await
SessionPrompt(s, u) ==
    LET b == Branch(u)
        counted == [sessions EXCEPT ![s].n = @ + 1]
    IN  /\ sessions[s].ws = "OPEN"
        /\ sessions[s].pc = "none"
        /\ Handled < MaxPrompts
        /\ IF b = "transfer"
           THEN LET acked == SessionSend(counted, s, s, TextMsg(brandVoice(TRANSFER_ACK), TRUE))
                IN  sessions' = [acked EXCEPT
                        ![s].up = Append(@, [req |-> "transfer",
                                             callSid |-> sessions[s].currentCallSid,
                                             cause |-> s]),
                        ![s].pc = "await_transfer"]
           ELSE sessions' = SessionSend(counted, s, s, LocalReply(u))
        /\ UNCHANGED sessionsFixed

\* part_003:423-437: transferLiveCall settles
\* (it throws when the CallSid is missing, part_003:67)
SessionSettle(s, ok) ==
    /\ sessions[s].pc = "await_transfer"
    /\ ok => sessions[s].up[Len(sessions[s].up)].callSid # NULL
    /\ LET sent == IF ok THEN sessions
                   ELSE SessionSend(sessions, s, s, TextMsg(brandVoice(TRANSFER_FALLBACK), TRUE))
       IN  sessions' = [sent EXCEPT ![s].pc = "none"]
    /\ UNCHANGED sessionsFixed

\* part_003:483-485
SessionClose(s) ==
    /\ sessions[s].ws = "OPEN"
    /\ sessions' = [sessions EXCEPT ![s].ws = "CLOSED"]
    /\ UNCHANGED sessionsFixed

SessionsInit ==
    /\ variant = "full"
    /\ OPENAI_API_KEY = TRUE
    /\ JANE_LOOKUPS_ENABLED = FALSE
    /\ twilioCreds = TRUE
    /\ twilioWS = "OPEN"
    /\ currentCallSid = NULL
    /\ prompts = <<>>
    /\ twilioOut = <<>>
    /\ outFor = <<>>
    /\ openaiCalls = <<>>
    /\ transferLog = <<>>
    /\ janeCalls = <<>>
    /\ StreamIdle
    /\ unhandled = FALSE
    /\ OUTPUT_JSON = FALSE
    /\ ZIP_TABLE = EmptyTable
    /\ load = NoLoad
    /\ seen = NoSeen
    /\ schemaCursor = 0
    /\ fn = NoFn
    /\ logged = "none"
    /\ commitTimer = NoTimer
    /\ sessions = [s \in SessionIds |-> NoSession]

SessionsNext ==
    \E s \in SessionIds :
        \/ SessionAccept(s)
        \/ SessionSetup(s)
        \/ \E u \in SessionPrompts : SessionPrompt(s, u)
        \/ \E ok \in BOOLEAN : SessionSettle(s, ok)
        \/ SessionClose(s)

SpecSessions == SessionsInit /\ [][SessionsNext]_vars


(***************************************************************************)
(* Properties.                                                             *)
(***************************************************************************)
Range(s) == {s[i] : i \in 1..Len(s)}

\* the messages written to the caller socket for prompt p (or response p of
\* the streaming bridge), in the order written
RepliesTo(p) ==
    LET F[n \in 0..Len(outFor)] ==
            IF n = 0 THEN <<>>
            ELSE IF outFor[n] = p THEN Append(F[n - 1], twilioOut[n]) ELSE F[n - 1]
    IN  F[Len(outFor)]

\* the prompt gets as far as the local intent handler
ReachesLocal(u) == u \notin {NoVoice, NotAString} /\ (variant = "full" => detectProductQuery(u) = NoText)

\* C1: every prompt event has caused at least one outbound text message by
\* the time the session starts on the next prompt.
C1_NoSilence ==
    \A p \in 1..Len(prompts) : p < Len(prompts) => RepliesTo(p) # <<>>

\* C2: prompts are handled one at a time in arrival order: a prompt is started
\* only when every earlier one has finished, at most one upstream call is in
\* flight, and replies leave in the order of their prompts.
C2_OneAtATime ==
    /\ \A p \in 1..Len(prompts) : p < Len(prompts) => prompts[p].pc = "done"
    /\ Cardinality({p \in 1..Len(prompts) : prompts[p].pc = "await_openai"}) <= 1
    /\ \A i, j \in 1..Len(outFor) : i < j => outFor[i] <= outFor[j]

\* C3: when the local intent handler returns a text for a prompt, exactly one
\* message carrying that answer, flagged last, is sent for the prompt, and no
\* upstream call is made for it.
C3_LocalIntentAnswers ==
    \A p \in 1..Len(prompts) :
        LET u == prompts[p].voicePrompt
        IN  (/\ ReachesLocal(u)
             /\ LocalOf(u) # NoText
             /\ ~(variant = "full" /\ LocalOf(u) = TRANSFER_NOW))
            => /\ RepliesTo(p) =
                     <<TextMsg(IF variant = "basic" THEN handleLocalIntentBasic(u)
                               ELSE brandVoice(handleLocalIntent(u)), TRUE)>>
               /\ p \notin Range(openaiCalls)

C3_Witness ==
    \E p \in 1..Len(prompts) :
        /\ prompts[p].branch = "local"
        /\ variant = "full"
        /\ Len(RepliesTo(p)) = 1
        /\ RepliesTo(p)[1].token # handleLocalIntent(prompts[p].voicePrompt)

\* C4: with no API key configured and no local intent matching, exactly one
\* apology, flagged last, is sent for the prompt and no upstream call is made.
C4_NoKeyApology ==
    \A p \in 1..Len(prompts) :
        LET u == prompts[p].voicePrompt
        IN  (/\ ReachesLocal(u)
             /\ LocalOf(u) = NoText
             /\ ~OPENAI_API_KEY)
            => /\ RepliesTo(p) =
                     <<TextMsg(IF variant = "basic" THEN SORRY_NO_KEY_BASIC
                               ELSE brandVoice(SORRY_NO_KEY), TRUE)>>
               /\ p \notin Range(openaiCalls)
               /\ openaiCalls = <<>>

C4_Witness ==
    \E p \in 1..Len(prompts) :
        /\ prompts[p].branch = "nokey"
        /\ Len(RepliesTo(p)) = 1
        /\ Len(prompts) = 2

\* the ways the upstream call fails
Failures == {"rejected", "non2xx", "malformed"}

\* what the caller is told after a failed upstream call
FailureReply(outcome) ==
    TextMsg(IF variant = "basic" THEN FALLBACK_FACTS
            ELSE IF outcome = "malformed" THEN brandVoice(DIDNT_CATCH)
            ELSE brandVoice(SORRY_BUSY), TRUE)

ErrorAtoms == Range(ERROR_TEXT) \cup {"fetch failed", "Unexpected token in JSON"}

FailedUpstream(p) ==
    /\ prompts[p].branch = "openai"
    /\ prompts[p].pc = "done"
    /\ prompts[p].outcome \in Failures

\* C5: a failed upstream call (rejected, non-2xx, malformed body) is answered
\* with the fallback or apology, flagged last, and at most once; the error's
\* text is never sent; the reply is sent whenever the caller socket is still
\* open when the call settles.
C5_FailureFallback ==
    /\ \A p \in 1..Len(prompts) :
           FailedUpstream(p)
           => /\ RepliesTo(p) \in {<<>>, <<FailureReply(prompts[p].outcome)>>}
              /\ twilioWS = "OPEN" => RepliesTo(p) # <<>>
    /\ \A i \in 1..Len(twilioOut) : Range(twilioOut[i].token) \cap ErrorAtoms = {}

\* C5 as stated: every failed upstream call is answered with exactly one
\* fallback or apology message.
C5_Original ==
    \A p \in 1..Len(prompts) :
        FailedUpstream(p) => RepliesTo(p) = <<FailureReply(prompts[p].outcome)>>

C5_Witness ==
    \E p \in 1..Len(prompts) :
        /\ FailedUpstream(p)
        /\ prompts[p].outcome = "non2xx"
        /\ Len(RepliesTo(p)) = 1

TransferAck == TextMsg(brandVoice(TRANSFER_ACK), TRUE)

TransferFallback == TextMsg(brandVoice(TRANSFER_FALLBACK), TRUE)

CallsFor(p) == {i \in 1..Len(transferLog) : transferLog[i].prompt = p}

\* the acknowledgement, one call of transferLiveCall made after it, no
\* further reply unless the call failed
TransferAcked(p) ==
    /\ Cardinality(CallsFor(p)) = 1
    /\ \A i \in CallsFor(p) :
           LET n == transferLog[i].sentBefore
           IN  /\ n >= 1
               /\ n <= Len(twilioOut)
               /\ twilioOut[n] = TransferAck
               /\ outFor[n] = p
               /\ transferLog[i].callSid \in CallSids
               /\ transferLog[i].callSid = NULL => prompts[p].outcome = "threw"
    /\ prompts[p].outcome # "threw" => RepliesTo(p) = <<TransferAck>>

\* C6: a transfer request is acknowledged first, then transferLiveCall is
\* called with the stored call id; after a successful call nothing more is
\* sent; after a failed one (a missing call id included) the fallback number
\* is sent once, provided the caller socket is still open at that moment.
C6_Transfer ==
    \A p \in 1..Len(prompts) :
        prompts[p].branch = "transfer"
        => /\ TransferAcked(p)
           /\ prompts[p].outcome = "threw"
              => /\ RepliesTo(p) \in {<<TransferAck>>, <<TransferAck, TransferFallback>>}
                 /\ twilioWS = "OPEN" => Len(RepliesTo(p)) = 2

\* C6 as stated: every failed transfer is followed by one further reply with
\* the fallback number.
C6_Original ==
    \A p \in 1..Len(prompts) :
        (prompts[p].branch = "transfer" /\ prompts[p].outcome = "threw")
        => RepliesTo(p) = <<TransferAck, TransferFallback>>

C6_Witness ==
    \E p, q \in 1..Len(prompts) :
        /\ prompts[p].branch = "transfer"
        /\ prompts[p].outcome = "ok"
        /\ RepliesTo(p) = <<TransferAck>>
        /\ prompts[q].branch = "transfer"
        /\ prompts[q].outcome = "threw"
        /\ RepliesTo(q) = <<TransferAck, TransferFallback>>

\* C7: once the caller socket has closed, the paired model socket is not left
\* open, also when the caller closed while the model socket was connecting.
C7_CallerCloseClosesUpstream ==
    twilioWS = "CLOSED" => openaiWS # "OPEN"

\* C8: once the model socket of a bridged session has closed, the caller
\* socket is closed too.
C8_UpstreamCloseClosesCaller ==
    (connPc = "bridged" /\ openaiWS = "CLOSED") => twilioWS # "OPEN"

\* C9: when setting up the model connection fails, an apology has been sent
\* on the caller socket.
C9_SetupFailureApology ==
    connPc = "failed" => twilioOut # <<>>

\* what the model socket's message handler writes to the caller socket
Relayed(ev, callerOpen) ==
    IF ~callerOpen THEN <<>>
    ELSE IF ev.type = "response.output_text.delta" /\ ev.delta # NoText
    THEN <<TextMsg(ev.delta, FALSE)>>
    ELSE IF ev.type = "response.completed" THEN <<TextMsg(NoText, TRUE)>>
    ELSE <<>>

\* C10: each non-empty text delta received while the caller socket is open
\* is forwarded at once as one message with last = FALSE, each completion
\* event as one empty-token message with last = TRUE, nothing else is sent,
\* and the terminator of a response follows all of its forwarded deltas.
C10_Streaming ==
    /\ [][openaiIn'.seq # openaiIn.seq
            => twilioOut' = twilioOut \o Relayed(openaiIn'.ev, openaiIn'.callerOpen)]_vars
    /\ [][openaiIn'.seq = openaiIn.seq => twilioOut' = twilioOut]_vars
    /\ [](\A i, j \in 1..Len(twilioOut) :
              (i < j /\ outFor[i] = outFor[j]) => ~twilioOut[i].last)

\* C10 as stated: every text delta and every completion event received is
\* forwarded.
C10_Original ==
    [][openaiIn'.seq # openaiIn.seq
         => /\ openaiIn'.ev.type = "response.output_text.delta"
               => twilioOut' = Append(twilioOut, TextMsg(openaiIn'.ev.delta, FALSE))
            /\ openaiIn'.ev.type = "response.completed"
               => twilioOut' = Append(twilioOut, TextMsg(NoText, TRUE))]_vars

C10_Witness ==
    /\ Len(twilioOut) = 3
    /\ twilioOut[1] = TextMsg(DeltaText(1), FALSE)
    /\ twilioOut[2] = TextMsg(DeltaText(2), FALSE)
    /\ twilioOut[3] = TextMsg(NoText, TRUE)
    /\ outFor = <<1, 1, 1>>

\* C11: a setup event never causes a message to the caller: the step that
\* stores the call id of a setup event leaves the caller socket's output as
\* it was.
C11_SetupSilent ==
    [][currentCallSid' # currentCallSid => twilioOut' = twilioOut]_vars

C11_Witness ==
    /\ currentCallSid = "CA1"
    /\ twilioOut = <<>>
    /\ prompts = <<>>

\* C12: a payload that is not valid JSON gets no reply.
C12_BadJsonDropped ==
    \A p \in 1..Len(prompts) : ~prompts[p].json => RepliesTo(p) = <<>>

\* the tables a finished load can give, and the table before any load
CompleteTables ==
    {EmptyTable} \cup {parseZipTable(src.rows, EmptyTable) : src \in {x \in Sources : x.kind = "rows"}}

\* C14: the global table is at every moment the complete result of one load
\* (or the empty table), also while another load is building its map, and so
\* is the table every lookup reads.
C14_TableAtomic ==
    /\ ZIP_TABLE \in CompleteTables
    /\ seen.table \in CompleteTables

C14_Witness ==
    /\ load.pc = "building"
    /\ load.src.rows = FileB
    /\ load.map # EmptyTable
    /\ load.rest # <<>>
    /\ seen.loading
    /\ seen.zip = "95816"
    /\ seen.table = parseZipTable(FileA, EmptyTable)
    /\ ZIP_TABLE = seen.table

IsTextMsg(m) ==
    /\ DOMAIN m = {"type", "token", "last"}
    /\ m.type = "text"
    /\ m.last \in BOOLEAN

\* C18: every message sent on the caller socket is one event of the shape
\* [type |-> "text", token, last].
C18_WireShape ==
    \A i \in 1..Len(twilioOut) : IsTextMsg(twilioOut[i])

\* C13: no exception raised in a handler or by an awaited call escapes as an
\* unhandled exception or rejection.
C13_NothingEscapes ==
    ~unhandled

\* the text holds the business's domain name as a whole name
MentionsBusiness(t) ==
    \E i \in 1..Len(t) : t[i] = DOMAIN_NAME /\ EndsAt(SubSeq(t, i + 1, Len(t)))

HasScheme(t) == Spliced(t) \/ \E i \in 1..Len(t) : t[i] \in Schemes

HasAtDomain(t) == \E i \in 1..Len(t) : t[i] = "@" /\ i < Len(t) /\ t[i + 1] = DOMAIN_NAME

\* C17: for a text that mentions the business's domain, the sanitizer's
\* output holds no "http" scheme prefix and no "@crystalnugs.com".
C17_NoSchemeNoAddress ==
    (fn.pc = "done" /\ MentionsBusiness(fn.input))
    => (~HasScheme(fn.out) /\ ~HasAtDomain(fn.out))

\* the sanitizer leaves the text as it is: the mark of a text that went through it
Sanitized(text) == brandVoice(text) = text

\* C16: every reply text sent to the caller, on every outbound path, has
\* been passed through the output sanitizer.
C16_AllSanitized ==
    \A i \in 1..Len(twilioOut) : Sanitized(twilioOut[i].token)

\* C19: an utterance with a word of the human-transfer vocabulary is always
\* classified as a transfer request: no other rule is tried before that one.
C19_HumanAlwaysTransfers ==
    \A p \in 1..Len(prompts) :
        (/\ variant = "full"
         /\ prompts[p].voicePrompt \notin {NoVoice, NotAString}
         /\ Says(prompts[p].voicePrompt, HumanWords))
        => prompts[p].branch = "transfer"

C21_MalformedNeverRaises ==
    \A p \in 1..Len(prompts) :
        prompts[p].voicePrompt \in {NoVoice, NotAString}
        => /\ prompts[p].branch # "typeerror"
           /\ ~unhandled

\* the words of a message sent to the caller, whatever its shape
MsgText(m) ==
    IF "token" \in DOMAIN m THEN m.token
    ELSE IF "raw" \in DOMAIN m THEN m.raw
    ELSE <<>>

Names(text, zip) == \E i \in 1..Len(text) : text[i] \in {zip, speakZip(zip)}

\* C22: a delivery question that carries only a code absent from the table
\* gets exactly one reply, an apology that names the code.
C22_UnknownZipApology ==
    \A p \in 1..Len(prompts) :
        (/\ variant = "zipfile"
         /\ prompts[p].asksDelivery
         /\ prompts[p].zips = <<"99999">>)
        => /\ Len(RepliesTo(p)) = 1
           /\ Names(MsgText(RepliesTo(p)[1]), "99999")

\* the single-shot server with the built-in table names the code
FullServerNamesUnknownZip ==
    \A p \in 1..Len(prompts) :
        (/\ variant = "full"
         /\ prompts[p].voicePrompt = Utt({"fee"}, <<"99999">>)
         /\ prompts[p].pc = "done")
        => /\ Len(RepliesTo(p)) = 1
           /\ Names(MsgText(RepliesTo(p)[1]), "99999")

\* sub occurs in text as a run of consecutive parts
Contains(text, sub) ==
    \E i \in 0..(Len(text) - Len(sub)) : SubSeq(text, i + 1, i + Len(sub)) = sub

\* a delivery question the full server answers from its table: it names a
\* code on file with minimum 40 and fee 1.99
AsksAboutListedZip(u) ==
    /\ u \notin {NoVoice, NotAString}
    /\ ReachesLocal(u)
    /\ ~Says(u, HumanWords)
    /\ Says(u, {"minimum", "min", "fee", "charge", "cost", "delivery", "eta"})
    /\ u.zips # <<>>
    /\ deliveryByZip(u.zips[1]) # NoRec
    /\ deliveryByZip(u.zips[1]).minimum = 4000
    /\ deliveryByZip(u.zips[1]).fee = 199

\* C23: for a code on file with minimum 40 and fee 1.99, the reply to a
\* delivery question naming it holds the code, "40", "1.99" and a window.
C23_ZipReplyFacts ==
    \A p \in 1..Len(prompts) :
        (variant = "full" /\ AsksAboutListedZip(prompts[p].voicePrompt))
        => /\ Len(RepliesTo(p)) = 1
           /\ LET text == RepliesTo(p)[1].token
                  rec == deliveryByZip(prompts[p].voicePrompt.zips[1])
              IN  /\ Names(text, rec.zip)
                  /\ Contains(text, <<"4", "0">>)
                  /\ Contains(text, <<"1", ".", "9", "9">>)
                  /\ rec.window # ""
                  /\ Contains(text, <<rec.window>>)

C23_Witness ==
    \E p \in 1..Len(prompts) :
        /\ variant = "full"
        /\ AsksAboutListedZip(prompts[p].voicePrompt)
        /\ prompts[p].voicePrompt.zips = <<"95816">>
        /\ Len(RepliesTo(p)) = 1

OnFile(table, zips) == SelectSeq(zips, LAMBDA z : \E r \in table : r.zip = z)

Zips(items) == [i \in 1..Len(items) |-> items[i].zip]

\* C24: the batch query returns the entries of the codes on file, in input
\* order, each code once; an empty input is a client error and an input with
\* no code on file a not-found error.
C24_BatchQuery ==
    (fn.name = "zones" /\ fn.pc = "done")
    => /\ Zips(fn.body) = OnFile(ZIP_TABLE, FirstSeen(fn.zips, {}))
       /\ variant = "zipfile"
          => /\ fn.zips = <<>> => fn.status \in 400..499
             /\ (fn.zips # <<>> /\ fn.body = <<>>) => fn.status = 404

\* buildZipArray alone keeps the order and drops repeats and misses
BuildZipArrayResolves ==
    (fn.name = "zones" /\ fn.pc = "done" /\ variant = "adaptive")
    => Zips(fn.body) = OnFile(ZIP_TABLE, FirstSeen(fn.zips, {}))

\* C26: after any load every key of the table is a code of exactly 5 digits.
C26_FiveDigitKeys ==
    \A r \in ZIP_TABLE : r.zip \in FiveDigits

\* the adaptive server's loader keeps 5-digit codes only
AdaptiveFiveDigitKeys ==
    variant = "adaptive" => \A r \in ZIP_TABLE : r.zip \in FiveDigits

\* C27: after any load every entry has a minimum >= 0 and a fee >= 0, and the
\* table holds exactly the entries of the rows whose numbers are finite.
C27_FiniteNonNegative ==
    /\ \A r \in ZIP_TABLE : r.min >= 0 /\ r.fee >= 0
    /\ (load.pc = "idle" /\ load.last = "ok")
       => {r.zip : r \in ZIP_TABLE} =
          {load.src.rows[i].zipcode : i \in {j \in 1..Len(load.src.rows) : RowOk(load.src.rows[j])}}

\* a row without a finite number is skipped and the rows after it are loaded
BadRowSkipped ==
    (load.pc = "idle" /\ load.last = "ok")
    => {r.zip : r \in ZIP_TABLE} =
       {load.src.rows[i].zipcode : i \in {j \in 1..Len(load.src.rows) : RowOk(load.src.rows[j])}}

\* C28: a delivery question with several codes is answered with every code
\* on file, each once, in order of first occurrence.
C28_AllCodesAnswered ==
    [][(variant = "zipfile" /\ Len(prompts') > Len(prompts))
       => LET m == prompts'[Len(prompts')]
              want == OnFile(ZIP_TABLE, FirstSeen(m.zips, {}))
              sent == SubSeq(twilioOut', Len(twilioOut) + 1, Len(twilioOut'))
          IN  (m.asksDelivery /\ want # <<>>)
              => /\ Len(sent) = 1
                 /\ IF "array" \in DOMAIN sent[1]
                    THEN Zips(sent[1].array) = want
                    ELSE \A i \in 1..Len(want) : Names(MsgText(sent[1]), want[i])]_vars

\* with CN_OUTPUT_FORMAT=json the array holds every code on file, each once
JsonModeListsAllCodes ==
    [][(variant = "zipfile" /\ OUTPUT_JSON /\ Len(prompts') > Len(prompts))
       => LET m == prompts'[Len(prompts')]
              want == OnFile(ZIP_TABLE, FirstSeen(m.zips, {}))
              sent == SubSeq(twilioOut', Len(twilioOut) + 1, Len(twilioOut'))
          IN  (m.asksDelivery /\ want # <<>>)
              => sent = <<ArrayMsg([i \in 1..Len(want) |-> buildZipJSON(ZIP_TABLE, want[i])])>>]_vars

\* a currency text with exactly two digits after the point
TwoPlaces(t) == Len(t) >= 4 /\ t[1] = "$" /\ t[Len(t) - 2] = "."

\* C29: the minimum is rendered as currency without a trailing ".00" and with
\* two decimal places otherwise; the fee always with two decimal places.
C29_MoneyRendering ==
    (fn.name = "money" /\ fn.pc = "done")
    => /\ TwoPlaces(fn.fee)
       /\ IF fn.cents % 100 = 0
          THEN fn.min = <<"$">> \o NatStr(fn.cents \div 100)
          ELSE TwoPlaces(fn.min)

\* C30: lead <= 30 gives the 1 to 2 hours window, lead >= 90 the 1.5 to 2.5
\* hours window, and every other lead (between 30 and 90, 0 or missing) the
\* 30 min to 2 hours window.
C30_LeadBuckets ==
    (fn.name = "eta" /\ fn.pc = "done")
    => fn.out = IF fn.lead = NaN \/ fn.lead[1] = 0 THEN "Generally 30 min to 2 hours"
                ELSE IF fn.lead[1] <= 30 THEN "Generally 1 hour to 2 hours"
                ELSE IF fn.lead[1] >= 90
                     THEN "Generally 1 and a half hours to 2 and a half hours"
                ELSE "Generally 30 min to 2 hours"

\* C25: the schema cursor starts at 0; it moves only forward, one candidate
\* at a time, each move together with a resend of the previous payload in the
\* new shape; answering a prompt leaves it where it is.
C25_SchemaCursor ==
    /\ schemaCursor = 0
    /\ ExtraIdle
    /\ [][/\ schemaCursor' \in {schemaCursor, schemaCursor + 1}
          /\ schemaCursor' = schemaCursor + 1
             => /\ twilioOut # <<>>
                /\ twilioOut' = Append(twilioOut,
                                       Shaped(schemaCursor', twilioOut[Len(twilioOut)].payload))
          /\ Len(prompts') > Len(prompts)
             => /\ schemaCursor' = schemaCursor
                /\ twilioOut'[Len(twilioOut')].shape = schemaCursor]_vars

C25_Witness ==
    /\ variant = "adaptive"
    /\ schemaCursor = 2
    /\ Len(prompts) = 2
    /\ Len(twilioOut) = 4
    /\ twilioOut[2].shape = 1
    /\ twilioOut[3] = Shaped(1, prompts[2])
    /\ twilioOut[4] = Shaped(2, prompts[2])

\* a step in which a log-only event was handled: a server that decodes
\* events logged it, or the raw bridge received the frame
LogOnlyHandled ==
    \/ logged' # logged
    \/ /\ variant = "raw"
       /\ Len(prompts') = Len(prompts) + 1
       /\ prompts'[Len(prompts')] = [frame |-> "interrupt"]

\* what a log-only event must leave alone: both sockets' traffic and state,
\* the call identifier and the pending timers
SessionUntouched ==
    UNCHANGED <<twilioOut, openaiOut, currentCallSid, twilioWS, openaiWS, connPc, commitTimer>>

DecodingServersLogOnly ==
    [][(variant # "raw" /\ LogOnlyHandled)
       => /\ SessionUntouched
          /\ UNCHANGED <<prompts, outFor, openaiCalls, transferLog, janeCalls, upstream,
                         openaiIn, unhandled>>]_vars

\* the upstream events one forwarded prompt is turned into
PromptPair(u) == <<UpMsg("conversation.item.create", u), UpMsg("response.create", NoVoice)>>

RECURSIVE PromptPairs(_)
\* the pairs of the prompts the streaming prompt branch handled, in arrival order
PromptPairs(frames) ==
    IF frames = <<>> THEN <<>>
    ELSE (IF Head(frames).branch = "stream" THEN PromptPair(Head(frames).voicePrompt) ELSE <<>>)
         \o PromptPairs(Tail(frames))

\* what was written upstream after the priming request
AfterPriming == IF openaiOut = <<>> THEN <<>> ELSE Tail(openaiOut)

\* C32: for every prompt the streaming prompt branch handles, one
\* conversation.item.create carrying the utterance and then one
\* response.create are sent upstream, the pairs in prompt arrival order and
\* nothing else between them.
C32_PairPerPrompt ==
    variant = "stream" => AfterPriming = PromptPairs(prompts)

\* whenever the upstream socket is open the pair is written, and nothing but
\* such pairs follows the priming request
OpenUpstreamGetsPairs ==
    [][variant = "stream"
       => IF Len(prompts') > Len(prompts)
          THEN LET f == prompts'[Len(prompts')]
               IN  openaiOut' = openaiOut \o (IF f.branch = "stream" /\ openaiWS = "OPEN"
                                              THEN PromptPair(f.voicePrompt) ELSE <<>>)
          ELSE \/ openaiOut' = openaiOut
               \/ openaiOut = <<>> /\ openaiOut' = <<UpMsg("response.create", PRIMING)>>]_vars

\* the prompt is detected as a product query
ProductFrame(p) ==
    /\ variant = "full"
    /\ prompts[p].voicePrompt \notin {NoVoice, NotAString}
    /\ detectProductQuery(prompts[p].voicePrompt) # NoText

\* the sentence sent when the lookup fails or is aborted (part_003:396-398)
JaneFallback(u) ==
    TextMsg(brandVoice(IF Says(u, {"maven"})
                       THEN <<"Yes, we carry Maven. Check", "Crystal Nugs dot com">>
                       ELSE <<"I could not reach our live menu. Check", "Crystal Nugs dot com">>), TRUE)

\* C33: a product query gets at most one reply, flagged last, and exactly
\* one when the caller socket is open as the lookup settles; a failed or
\* aborted lookup gives the fallback sentence; the abort timer is armed only
\* while the lookup is pending and cleared on every path; the local intent
\* handler, the transfer and the upstream model are not used for the prompt.
C33_ProductQuery ==
    \A p \in 1..Len(prompts) :
        ProductFrame(p)
        => /\ Len(RepliesTo(p)) <= 1
           /\ \A i \in 1..Len(RepliesTo(p)) : RepliesTo(p)[i].last
           /\ (prompts[p].pc = "done" /\ twilioWS = "OPEN") => Len(RepliesTo(p)) = 1
           /\ (prompts[p].pc = "done" /\ prompts[p].outcome \in {"error", "abort"})
              => RepliesTo(p) \in {<<>>, <<JaneFallback(prompts[p].voicePrompt)>>}
           /\ prompts[p].to = (IF ~JANE_LOOKUPS_ENABLED THEN "none"
                               ELSE IF prompts[p].pc = "done" THEN "cleared" ELSE "armed")
           /\ prompts[p].pc \in {"done", "await_jane"}
           /\ p \notin Range(openaiCalls)
           /\ \A i \in 1..Len(transferLog) : transferLog[i].prompt # p

\* C33 as stated: every settled product query has exactly one reply.
C33_Original ==
    \A p \in 1..Len(prompts) :
        (ProductFrame(p) /\ prompts[p].pc = "done") => Len(RepliesTo(p)) = 1

C33_Witness ==
    \E p \in 1..Len(prompts) :
        /\ ProductFrame(p)
        /\ Says(prompts[p].voicePrompt, {"person"})
        /\ prompts[p].pc = "done"
        /\ prompts[p].outcome = "abort"
        /\ prompts[p].to = "cleared"
        /\ RepliesTo(p) = <<JaneFallback(prompts[p].voicePrompt)>>
        /\ OPENAI_API_KEY

\* a handler that was awaiting an upstream call finishes in this step
SettlesAwait(p) ==
    /\ p <= Len(prompts)
    /\ prompts[p].pc \in {"await_openai", "await_jane", "await_transfer"}
    /\ prompts'[p].pc = "done"

\* C34: a message is written to the caller socket only while it is OPEN; a
\* handler whose awaited call settles after the caller socket closed sends
\* nothing and raises nothing.
C34_OnlyOnOpenSockets ==
    [][/\ twilioOut' # twilioOut => twilioWS = "OPEN"
       /\ \A p \in 1..MaxPrompts :
              (SettlesAwait(p) /\ twilioWS # "OPEN")
              => /\ twilioOut' = twilioOut
                 /\ unhandled' = unhandled]_vars

C34_Witness ==
    /\ twilioWS = "CLOSED"
    /\ \E p \in 1..Len(prompts) :
           /\ prompts[p].branch = "openai"
           /\ prompts[p].pc = "done"
           /\ prompts[p].outcome = "ok"
           /\ RepliesTo(p) = <<>>
    /\ ~unhandled

\* the same for both sockets of the text bridge
StreamSendsOnlyOnOpen ==
    [][/\ twilioOut' # twilioOut => twilioWS = "OPEN"
       /\ openaiOut' # openaiOut => (openaiWS = "OPEN" \/ openaiWS' = "OPEN")]_vars

\* C35: every prompt that arrives on the caller socket of the text bridge
\* after the connection was accepted is seen by the message handler, those
\* that arrive while the model socket is being opened included.
C35_NoEventLost ==
    variant = "stream"
    => \A p \in 1..Len(prompts) : prompts[p].branch # "nolistener"

\* once both sockets are bridged every prompt reaches the handler
BridgedPromptsHeard ==
    [][(variant = "stream" /\ connPc = "bridged" /\ Len(prompts') > Len(prompts))
       => prompts'[Len(prompts')].branch \in {"stream", "ignored"}]_vars

\* C36: the text bridge writes no text to the caller socket before the first
\* prompt of the session has been received.
C36_NoTextBeforePrompt ==
    (variant = "stream" /\ prompts = <<>>) => twilioOut = <<>>

\* what reaches the caller before the first prompt answers the priming request
EarlyTextAnswersPriming ==
    (variant = "stream" /\ prompts = <<>>)
    => \A i \in 1..Len(twilioOut) : outFor[i] = 1 /\ openaiOut[1] = UpMsg("response.create", PRIMING)

Commit == UpMsg("input_audio_buffer.commit", NoVoice)

\* the step writes a commit to the model socket
CommitSent ==
    /\ Len(openaiOut') > Len(openaiOut)
    /\ \E i \in (Len(openaiOut) + 1)..Len(openaiOut') : openaiOut'[i] = Commit

\* C37: at most one commit timer is pending; a commit is sent, with
\* response.create right after it, only by the timer the latest media event
\* armed (no media event since); once the caller socket is not open a timer
\* that still fires writes nothing to the model socket.
C37_CommitTimer ==
    /\ [](Cardinality(commitTimer.pending) <= 1)
    /\ [][CommitSent
          => /\ openaiOut' = openaiOut \o <<Commit, UpMsg("response.create", NoVoice)>>
             /\ commitTimer'.fired # commitTimer.fired
             /\ commitTimer'.fired = commitTimer.media
             /\ commitTimer'.media = commitTimer.media]_vars
    /\ [][(commitTimer'.fired # commitTimer.fired /\ (twilioWS # "OPEN" \/ openaiWS # "OPEN"))
          => openaiOut' = openaiOut]_vars

C37_Witness ==
    /\ variant = "audio"
    /\ twilioWS = "CLOSED"
    /\ openaiWS = "CLOSING"
    /\ commitTimer = [handle |-> 2, pending |-> {}, media |-> 2, fired |-> 2]
    /\ openaiOut = <<UpMsg("response.create", PRIMING),
                     UpMsg("input_audio_buffer.append", 1),
                     Commit,
                     UpMsg("response.create", NoVoice),
                     UpMsg("input_audio_buffer.append", 2)>>

\* C38: with several calls interleaved, whatever is written to a session's
\* caller socket and whatever its handlers request upstream was caused by an
\* event of that same session; the call identifier a session holds or passes
\* to a transfer is the one its own setup event carried; and a step changes
\* the state of one session only.
C38_SessionsIsolated ==
    /\ [](\A s \in SessionIds :
              /\ \A i \in 1..Len(sessions[s].out) : sessions[s].out[i].cause = s
              /\ \A i \in 1..Len(sessions[s].up) :
                     /\ sessions[s].up[i].cause = s
                     /\ sessions[s].up[i].callSid \in {NULL, SessionSid(s)}
              /\ sessions[s].currentCallSid \in {NULL, SessionSid(s)})
    /\ [][\A s, t \in SessionIds :
              (s # t /\ sessions'[s] # sessions[s]) => sessions'[t] = sessions[t]]_vars

C38_Witness ==
    /\ sessions # NoSessions
    /\ sessions[1].pc = "await_transfer"
    /\ sessions[2].pc = "await_transfer"
    /\ sessions[1].up = <<[req |-> "transfer", callSid |-> SessionSid(1), cause |-> 1]>>
    /\ sessions[2].up = <<[req |-> "transfer", callSid |-> SessionSid(2), cause |-> 2]>>
    /\ Len(sessions[1].out) = 1
    /\ Len(sessions[2].out) = 1

RawWritesOnlyWhenOpen ==
    [][variant = "raw"
       => /\ openaiOut' # openaiOut => openaiWS = "OPEN"
          /\ twilioOut' # twilioOut => twilioWS = "OPEN"]_vars

====
